---- MODULE Spec2Model ----
(***************************************************************************)
(* Verification model of the diet-coach backend (yschoi128/markany-10team).*)
(*                                                                         *)
(* Conventions                                                             *)
(*   - Python Optional[T] is a sequence of length <= 1: None is << >> and  *)
(*     a present value v is <<v>>.                                         *)
(*   - Python floats that carry nutrition amounts are integers counted in  *)
(*     thousandths (250.0 kcal is 250000), so that round(x, 2) is a real   *)
(*     conversion (to a multiple of 10 thousandths).                       *)
(*   - Korean string literals of the source are written in ASCII; the      *)
(*     definition that introduces one names the source line.               *)
(***************************************************************************)
EXTENDS Integers, Sequences, FiniteSets, TLC

VARIABLES
    \* FoodAnalysisPipeline.process_meal_image (one call in flight at most)
    pc,            \* position of the call: idle, upload, analyze, save, delete, done
    call_args,     \* the arguments of the call in flight
    meal_id,       \* generate_unique_id("meal")
    image_url,     \* Optional[str] returned by upload_image
    food_items,    \* the list handed to MealRecord(foods=...)
    meal_record,   \* Optional[MealRecord] built at step 5
    success,       \* Optional[bool] returned by save_meal_record
    result,        \* Optional[MealRecord] returned to the caller
    calls,         \* the service calls the call in flight has made, in order
    \* FoodAnalysisPipeline._calculate_total_nutrition as a pure function
    nutr_items,    \* its argument
    nutr_total,    \* Optional[NutritionInfo]: its result once applied
    \* ConversationMemory
    max_history,   \* self.max_history
    conversations, \* self.conversations: user_id -> list of entries
    saved,         \* every entry ever saved, per user, in order (history of the run)
    save_count,    \* number of save_conversation calls so far (datetime.now())
    history_reply, \* the last get_conversation_history call: what it read and returned
    \* ToolRegistry
    tools,         \* self.tools: name -> Tool
    invoke_log,    \* the functions of the tools invoked so far, in order
    exec_reply,    \* the last execute_tool call: what it invoked and how it ended
    \* EnhancedMCPIntegration and its two PerformanceCache objects
    now,            \* time.time(), in seconds
    tools_cache,    \* self.tools_cache.cache: key -> (data, timestamp)
    response_cache, \* self.response_cache.cache: key -> (data, timestamp)
    in_flight,      \* /mcp/tools/call requests awaiting their tool
    tool_runs,      \* the tool executions started so far, in order
    lookup,         \* the last PerformanceCache.get: what it found and returned
    mcp_reply,      \* the last response an endpoint returned
    stored_weight,  \* the weight of user u1's profile in the user table
    \* BedrockAgentDietCoach.process_input (one call in flight at most)
    coach_pc,            \* position of the call: idle, context1, context2, converse, image, done
    coach_args,          \* the arguments of the call in flight
    coach_log,           \* what the call in flight has invoked, in order, and how each ended
    coach_attempt,       \* attempt of the retry loop of _analyze_food_image
    coach_sleeps,        \* the time.sleep calls of that loop, in seconds, in order
    coach_context_text,  \* context_text of _fallback_to_claude
    coach_reply,         \* how the last call ended: the envelope returned, or a raise
    \* Agent API POST /chat (one request in flight at most)
    chat_pc,           \* position of the request: idle, read, coach, done
    chat_args,         \* user_id, message and image of the request in flight
    chat_context,      \* the context dict built for the coach
    chat_coach_calls,  \* the process_input calls the request in flight has made
    chat_reply,        \* the HTTP status and body the last request was answered with
    \* backend main POST /mcp/tools/call
    main_runs,   \* the tool executions the endpoint has started, in order
    main_reply,  \* the last request and the HTTP status and body it was answered with
    \* FoodAnalysisPipeline.reanalyze_meal (one call in flight at most)
    rean_pc,        \* position of the call: idle, lookup, download, analyze, save, done
    rean_args,      \* meal_id, user_id and people_count of the call in flight
    existing_meal,  \* Optional[MealRecord] found among the user's meals
    updated_meal,   \* Optional[MealRecord] built at step 6
    rean_calls,     \* the service calls the call in flight has made, in order
    rean_result,    \* Optional[MealRecord] returned to the caller
    \* FoodAnalysisPipeline.batch_process_images (one call in flight at most)
    batch_pc,     \* position of the call: idle, loop, done
    batch_args,   \* user_id and image_batch of the call in flight
    results,      \* the results list of the loop
    batch_calls,  \* the process_meal_image calls of the loop, in order, with their results
    batch_reply,  \* Optional[list] returned to the caller
    \* The user profile tools and the users table they write
    profiles,       \* the users table: user_id -> stored UserProfile
    profile_saves,  \* the save_user_profile calls made so far, in order
    profile_now,    \* datetime.now(), counted in operations
    tool_reply,     \* the last tool call: its arguments and what it returned
    \* The target-calorie computations as pure functions
    cal_input,    \* the profile they are applied to
    cal_targets,  \* Optional: the number each call site computes, once applied
    \* the agent-provisioning scripts (one run at most)
    prov_pc,         \* position of the run: idle, poll, alias, config, done
    prov_script,     \* which script runs
    prov_polls,      \* get_agent calls of the wait loop so far
    prov_wait_time,  \* seconds slept in the wait loop so far
    prov_status,     \* agentStatus of the last get_agent
    prov_calls,      \* the other service calls and file writes so far, in order
    prov_result,     \* what the run returned
    \* DynamoDBService: one user profile saved and read back
    ddb_pc,       \* position: built, saved, failed, read
    ddb_profile,  \* the lists of the UserProfile handed to save_user_profile
    ddb_item,     \* the item of the user table, once put
    ddb_read,     \* the lists of the UserProfile that get_user_profile returned
    \* ConversationMemory._extract_topics (one call)
    top_pc,             \* position of the call: idle, ready, llm, done
    top_conversations,  \* the conversations argument: the user message of each entry
    top_llm,            \* how process_natural_language ended, once it has
    top_result,         \* what the call returned
    \* BedrockService.process_natural_language (one call)
    nlp_pc,      \* position of the call: idle, ready, llm, done
    nlp_args,    \* user_input, user_profile and conversation_history of the call
    nlp_llm,     \* how _invoke_bedrock_text ended, once it has
    nlp_result,  \* the dict the call returned
    \* the analyze_food_image tool of diet_tools.py (one call in flight at most)
    dt_pc,           \* position of the call: idle, upload, analyze, save, done
    dt_args,         \* the arguments of the call in flight
    dt_meal_id,      \* generate_unique_id("meal")
    dt_image_url,    \* Optional[str] returned by upload_image
    dt_meal_record,  \* Optional[MealRecord] built at step 4
    dt_calls,        \* the service calls the call in flight has made, in order
    dt_bucket,       \* the URLs of the images in storage
    dt_table,        \* the meal ids of the records in the meal table
    dt_result        \* Optional[dict] returned to the caller

vars == <<pc, call_args, meal_id, image_url, food_items, meal_record, success,
          result, calls, nutr_items, nutr_total, max_history, conversations,
          saved, save_count, history_reply, tools, invoke_log, exec_reply,
          now, tools_cache, response_cache, in_flight, tool_runs, lookup, mcp_reply,
          stored_weight,
          coach_pc, coach_args, coach_log, coach_attempt, coach_sleeps,
          coach_context_text, coach_reply,
          chat_pc, chat_args, chat_context, chat_coach_calls, chat_reply,
          main_runs, main_reply,
          rean_pc, rean_args, existing_meal, updated_meal, rean_calls, rean_result,
          batch_pc, batch_args, results, batch_calls, batch_reply,
          profiles, profile_saves, profile_now, tool_reply,
          cal_input, cal_targets,
          prov_pc, prov_script, prov_polls, prov_wait_time, prov_status, prov_calls, prov_result,
          ddb_pc, ddb_profile, ddb_item, ddb_read,
          top_pc, top_conversations, top_llm, top_result,
          nlp_pc, nlp_args, nlp_llm, nlp_result,
          dt_pc, dt_args, dt_meal_id, dt_image_url, dt_meal_record, dt_calls, dt_bucket, dt_table, dt_result>>

pipeline_vars == <<pc, call_args, meal_id, image_url, food_items, meal_record,
                   success, result, calls>>

nutrition_vars == <<nutr_items, nutr_total>>

memory_vars == <<max_history, conversations, saved, save_count, history_reply>>

registry_vars == <<tools, invoke_log, exec_reply>>

mcp_vars == <<now, tools_cache, response_cache, in_flight, tool_runs, lookup, mcp_reply,
             stored_weight>>

coach_vars == <<coach_pc, coach_args, coach_log, coach_attempt, coach_sleeps,
               coach_context_text, coach_reply>>

chat_vars == <<chat_pc, chat_args, chat_context, chat_coach_calls, chat_reply>>

main_vars == <<main_runs, main_reply>>

reanalyze_vars == <<rean_pc, rean_args, existing_meal, updated_meal, rean_calls, rean_result>>

batch_vars == <<batch_pc, batch_args, results, batch_calls, batch_reply>>

profiles_vars == <<profiles, profile_saves, profile_now, tool_reply>>

calories_vars == <<cal_input, cal_targets>>

provision_vars == <<prov_pc, prov_script, prov_polls, prov_wait_time, prov_status, prov_calls, prov_result>>

store_vars == <<ddb_pc, ddb_profile, ddb_item, ddb_read>>

topics_vars == <<top_pc, top_conversations, top_llm, top_result>>

nlp_vars == <<nlp_pc, nlp_args, nlp_llm, nlp_result>>

diet_vars == <<dt_pc, dt_args, dt_meal_id, dt_image_url, dt_meal_record, dt_calls, dt_bucket, dt_table, dt_result>>

\* What a step of one object leaves alone: the other objects.
OutsidePipeline == UNCHANGED <<nutrition_vars, memory_vars, registry_vars, mcp_vars,
    coach_vars,
    chat_vars,
    main_vars,
    reanalyze_vars,
    batch_vars,
    profiles_vars,
    calories_vars,
    provision_vars,
    store_vars,
    topics_vars,
    nlp_vars,
    diet_vars>>

OutsideNutrition == UNCHANGED <<pipeline_vars, memory_vars, registry_vars, mcp_vars,
    coach_vars,
    chat_vars,
    main_vars,
    reanalyze_vars,
    batch_vars,
    profiles_vars,
    calories_vars,
    provision_vars,
    store_vars,
    topics_vars,
    nlp_vars,
    diet_vars>>

OutsideMemory == UNCHANGED <<pipeline_vars, nutrition_vars, registry_vars, mcp_vars,
    coach_vars,
    chat_vars,
    main_vars,
    reanalyze_vars,
    batch_vars,
    profiles_vars,
    calories_vars,
    provision_vars,
    store_vars,
    topics_vars,
    nlp_vars,
    diet_vars>>

OutsideRegistry == UNCHANGED <<pipeline_vars, nutrition_vars, memory_vars, mcp_vars,
    coach_vars,
    chat_vars,
    main_vars,
    reanalyze_vars,
    batch_vars,
    profiles_vars,
    calories_vars,
    provision_vars,
    store_vars,
    topics_vars,
    nlp_vars,
    diet_vars>>

OutsideMcp == UNCHANGED <<pipeline_vars, nutrition_vars, memory_vars, registry_vars,
    coach_vars,
    chat_vars,
    main_vars,
    reanalyze_vars,
    batch_vars,
    profiles_vars,
    calories_vars,
    provision_vars,
    store_vars,
    topics_vars,
    nlp_vars,
    diet_vars>>

OutsideCoach == UNCHANGED <<pipeline_vars, nutrition_vars, memory_vars, registry_vars,
    mcp_vars,
    chat_vars,
    main_vars,
    reanalyze_vars,
    batch_vars,
    profiles_vars,
    calories_vars,
    provision_vars,
    store_vars,
    topics_vars,
    nlp_vars,
    diet_vars>>

OutsideChat == UNCHANGED <<pipeline_vars, nutrition_vars, memory_vars, registry_vars,
    mcp_vars, coach_vars,
    main_vars,
    reanalyze_vars,
    batch_vars,
    profiles_vars,
    calories_vars,
    provision_vars,
    store_vars,
    topics_vars,
    nlp_vars,
    diet_vars>>

OutsideMain == UNCHANGED <<pipeline_vars, nutrition_vars, memory_vars, registry_vars,
    mcp_vars, coach_vars, chat_vars,
    reanalyze_vars,
    batch_vars,
    profiles_vars,
    calories_vars,
    provision_vars,
    store_vars,
    topics_vars,
    nlp_vars,
    diet_vars>>

OutsideReanalyze == UNCHANGED <<pipeline_vars, nutrition_vars, memory_vars, registry_vars,
    mcp_vars, coach_vars, chat_vars, main_vars,
    batch_vars,
    profiles_vars,
    calories_vars,
    provision_vars,
    store_vars,
    topics_vars,
    nlp_vars,
    diet_vars>>

OutsideBatch == UNCHANGED <<pipeline_vars, nutrition_vars, memory_vars, registry_vars,
    mcp_vars, coach_vars, chat_vars, main_vars,
    reanalyze_vars,
    profiles_vars,
    calories_vars,
    provision_vars,
    store_vars,
    topics_vars,
    nlp_vars,
    diet_vars>>

OutsideProfiles == UNCHANGED <<pipeline_vars, nutrition_vars, memory_vars, registry_vars,
    mcp_vars, coach_vars, chat_vars, main_vars,
    reanalyze_vars, batch_vars,
    calories_vars,
    provision_vars,
    store_vars,
    topics_vars,
    nlp_vars,
    diet_vars>>

OutsideCalories == UNCHANGED <<pipeline_vars, nutrition_vars, memory_vars, registry_vars,
    mcp_vars, coach_vars, chat_vars, main_vars,
    reanalyze_vars, batch_vars, profiles_vars,
    provision_vars,
    store_vars,
    topics_vars,
    nlp_vars,
    diet_vars>>

OutsideProvision == UNCHANGED <<pipeline_vars, nutrition_vars, memory_vars, registry_vars,
    mcp_vars, coach_vars, chat_vars, main_vars,
    reanalyze_vars, batch_vars, profiles_vars, calories_vars,
    store_vars,
    topics_vars,
    nlp_vars,
    diet_vars>>

OutsideStore == UNCHANGED <<pipeline_vars, nutrition_vars, memory_vars, registry_vars,
    mcp_vars, coach_vars, chat_vars, main_vars,
    reanalyze_vars, batch_vars, profiles_vars, calories_vars,
    provision_vars,
    topics_vars,
    nlp_vars,
    diet_vars>>

OutsideTopics == UNCHANGED <<pipeline_vars, nutrition_vars, memory_vars, registry_vars,
    mcp_vars, coach_vars, chat_vars, main_vars,
    reanalyze_vars, batch_vars, profiles_vars, calories_vars,
    provision_vars, store_vars,
    nlp_vars,
    diet_vars>>

OutsideNlp == UNCHANGED <<pipeline_vars, nutrition_vars, memory_vars, registry_vars,
    mcp_vars, coach_vars, chat_vars, main_vars,
    reanalyze_vars, batch_vars, profiles_vars, calories_vars,
    provision_vars, store_vars, topics_vars,
    diet_vars>>

OutsideDiet == UNCHANGED <<pipeline_vars, nutrition_vars, memory_vars, registry_vars,
    mcp_vars, coach_vars, chat_vars, main_vars,
    reanalyze_vars, batch_vars, profiles_vars, calories_vars,
    provision_vars, store_vars, topics_vars, nlp_vars>>

-----------------------------------------------------------------------------
(* Optional values *)

None == << >>

Some(v) == <<v>>

IsNone(o) == o = << >>

Get(o) == o[1]

\* Python truthiness of an Optional[str]: None and "" are falsy.
Truthy(o) == o # None /\ Get(o) # ""

RECURSIVE SumSeq(_)
\* Python's sum over a generator: 0 plus the elements, left to right.
SumSeq(s) == IF s = << >> THEN 0 ELSE Head(s) + SumSeq(Tail(s))

\* All sequences over S of length at most n.
SeqUpTo(S, n) == UNION {[1..k -> S] : k \in 0..n}

-----------------------------------------------------------------------------
(* Bounds of the model *)

MaxItems == 2

-----------------------------------------------------------------------------
(* data_models.py *)

\* NutritionInfo(calories, carbohydrates, protein, fat, fiber=None, sodium=None)
NutritionInfo(cal, carb, prot, fat, fiber, sodium) ==
    [calories |-> cal, carbohydrates |-> carb, protein |-> prot, fat |-> fat,
     fiber |-> fiber, sodium |-> sodium]

\* FoodItem(name, quantity, nutrition, confidence); confidence in thousandths.
FoodItem(name, quantity, nutrition, confidence) ==
    [name |-> name, quantity |-> quantity, nutrition |-> nutrition,
     confidence |-> confidence]

\* MealRecord's pydantic validation: people_count has ge=1; every other field
\* of the records built here is already of its declared type.
MealRecordValid(people_count) == people_count >= 1

\* A slip: the record is built without the uploaded image's URL.
MutMealRecordNoUrl(user_id, mid, timestamp, meal_type, url, foods, total, people_count, notes) ==
    [user_id |-> user_id, meal_id |-> mid, timestamp |-> timestamp,
     meal_type |-> meal_type, image_url |-> None, foods |-> foods,
     total_nutrition |-> total, people_count |-> people_count, notes |-> notes]

MealRecord(user_id, mid, timestamp, meal_type, url, foods, total, people_count, notes) ==
    [user_id |-> user_id, meal_id |-> mid, timestamp |-> timestamp,
     meal_type |-> meal_type, image_url |-> url, foods |-> foods,
     total_nutrition |-> total, people_count |-> people_count, notes |-> notes]

-----------------------------------------------------------------------------
(* FoodAnalysisPipeline._calculate_total_nutrition and its helpers *)

\* Python's round(x, 2) on a value counted in thousandths: the nearest
\* multiple of 10, a tie (x ending in 5) going to the even hundredth.
Round2(x) ==
    LET q == x \div 10
        r == x % 10
    IN  IF r < 5 THEN 10 * q
        ELSE IF r > 5 THEN 10 * (q + 1)
        ELSE IF q % 2 = 0 THEN 10 * q ELSE 10 * (q + 1)

\* `food.nutrition.fiber or 0`: None and 0.0 both give 0.
OrZero(o) == IF o = None \/ Get(o) = 0 THEN 0 ELSE Get(o)

\* A copy-and-paste slip: total_fat sums the protein column.
MutCalcFatFromProtein(items) ==
    LET total_calories == SumSeq([i \in 1..Len(items) |-> items[i].nutrition.calories])
        total_carbs    == SumSeq([i \in 1..Len(items) |-> items[i].nutrition.carbohydrates])
        total_protein  == SumSeq([i \in 1..Len(items) |-> items[i].nutrition.protein])
        total_fat      == SumSeq([i \in 1..Len(items) |-> items[i].nutrition.protein])
        total_fiber    == SumSeq([i \in 1..Len(items) |-> OrZero(items[i].nutrition.fiber)])
        total_sodium   == SumSeq([i \in 1..Len(items) |-> OrZero(items[i].nutrition.sodium)])
    IN  NutritionInfo(Round2(total_calories), Round2(total_carbs),
                      Round2(total_protein), Round2(total_fat),
                      IF total_fiber > 0 THEN Some(Round2(total_fiber)) ELSE None,
                      IF total_sodium > 0 THEN Some(Round2(total_sodium)) ELSE None)

calculate_total_nutrition(items) ==
    LET total_calories == SumSeq([i \in 1..Len(items) |-> items[i].nutrition.calories])
        total_carbs    == SumSeq([i \in 1..Len(items) |-> items[i].nutrition.carbohydrates])
        total_protein  == SumSeq([i \in 1..Len(items) |-> items[i].nutrition.protein])
        total_fat      == SumSeq([i \in 1..Len(items) |-> items[i].nutrition.fat])
        total_fiber    == SumSeq([i \in 1..Len(items) |-> OrZero(items[i].nutrition.fiber)])
        total_sodium   == SumSeq([i \in 1..Len(items) |-> OrZero(items[i].nutrition.sodium)])
    IN  NutritionInfo(Round2(total_calories), Round2(total_carbs),
                      Round2(total_protein), Round2(total_fat),
                      IF total_fiber > 0 THEN Some(Round2(total_fiber)) ELSE None,
                      IF total_sodium > 0 THEN Some(Round2(total_sodium)) ELSE None)

\* name: the source's Korean literal "bunseokdoeji aneun eumsik"
\* (food that was not analysed); quantity: "1 inbun" (one serving).
DefaultName == "unanalyzed_food"

DefaultConfidence == 100

DefaultCalories == 300000

DefaultCarbohydrates == 30000

DefaultProtein == 15000

DefaultFat == 10000

create_default_food_item ==
    FoodItem(DefaultName, "1_serving",
             NutritionInfo(DefaultCalories, DefaultCarbohydrates, DefaultProtein,
                           DefaultFat, None, None),
             DefaultConfidence)

-----------------------------------------------------------------------------
(* ConversationMemory (agents/memory/conversation_memory.py) *)

MaxHistory == 2

MaxSaves == 4

MaxLimit == 3

DefaultMaxHistory == 20

MemoryUsers == {"u1", "u2"}

Messages == {"hello", "lunch?"}

\* Python's s[-n:] for an int n: the last n elements when 0 < n, the whole
\* list when n = 0 (-0 is 0) , and s[|n|:] when n < 0.
SliceFromMinus(s, n) ==
    LET start == IF -n < 0 THEN (IF Len(s) - n < 0 THEN 0 ELSE Len(s) - n)
                 ELSE (IF -n > Len(s) THEN Len(s) ELSE -n)
    IN  SubSeq(s, start + 1, Len(s))

\* ConversationMemory.__init__ with no call made yet.
MemoryIdle ==
    /\ max_history = DefaultMaxHistory
    /\ conversations = << >>
    /\ saved = [u \in MemoryUsers |-> << >>]
    /\ save_count = 0
    /\ history_reply = None

\* ConversationMemory(max_history=N)
MemoryConstructed ==
    /\ max_history \in 0..MaxHistory
    /\ conversations = << >>
    /\ saved = [u \in MemoryUsers |-> << >>]
    /\ save_count = 0
    /\ history_reply = None

\* A slip: the coroutine is suspended between the append (line 60) and the
\* truncation (lines 63-64), so that a call first appends, and the truncation
\* of an over-long list is a later step of its own.
MutSaveConversationInTwoSteps(user_id, user_message, assistant_response) ==
    LET before == IF user_id \in DOMAIN conversations
                    THEN conversations[user_id] ELSE << >>
        conversation_entry ==
            [timestamp |-> save_count + 1, user |-> user_message,
             assistant |-> assistant_response, metadata |-> << >>]
    IN  /\ IF Len(before) > max_history /\ max_history > 0
             THEN /\ conversations' =
                       [conversations EXCEPT
                           ![user_id] = SliceFromMinus(before, max_history)]
                  /\ UNCHANGED <<saved, save_count>>
             ELSE /\ save_count < MaxSaves
                  /\ conversations' =
                       [u \in DOMAIN conversations \cup {user_id} |->
                           IF u = user_id THEN Append(before, conversation_entry)
                           ELSE conversations[u]]
                  /\ saved' = [saved EXCEPT ![user_id] = Append(@, conversation_entry)]
                  /\ save_count' = save_count + 1
        /\ UNCHANGED <<max_history, history_reply>>
        /\ OutsideMemory

\* Lines 50-64. save_conversation is a coroutine without an await: between
\* the append and the truncation the event loop runs nothing else.
save_conversation(user_id, user_message, assistant_response) ==
    /\ save_count < MaxSaves
    /\ LET conversation_entry ==
               [timestamp |-> save_count + 1, user |-> user_message,
                assistant |-> assistant_response, metadata |-> << >>]
           before == IF user_id \in DOMAIN conversations
                       THEN conversations[user_id] ELSE << >>
           appended == Append(before, conversation_entry)
           kept == IF Len(appended) > max_history
                     THEN SliceFromMinus(appended, max_history)
                     ELSE appended
       IN  /\ conversations' =
                 [u \in DOMAIN conversations \cup {user_id} |->
                     IF u = user_id THEN kept ELSE conversations[u]]
           /\ saved' = [saved EXCEPT ![user_id] = Append(@, conversation_entry)]
    /\ save_count' = save_count + 1
    /\ UNCHANGED <<max_history, history_reply>>
    /\ OutsideMemory

\* Lines 81-84.
get_conversation_history(user_id, limit) ==
    /\ history_reply' =
         Some([user_id |-> user_id, limit |-> limit,
               known |-> user_id \in DOMAIN conversations,
               stored |-> IF user_id \in DOMAIN conversations
                            THEN conversations[user_id] ELSE << >>,
               reply |-> IF user_id \notin DOMAIN conversations
                           THEN << >>
                           ELSE SliceFromMinus(conversations[user_id], limit)])
    /\ UNCHANGED <<max_history, conversations, saved, save_count>>
    /\ OutsideMemory

MemoryNext ==
    \/ \E u \in MemoryUsers, m \in Messages : save_conversation(u, m, "reply")
    \/ \E u \in MemoryUsers, l \in 0..MaxLimit : get_conversation_history(u, l)

-----------------------------------------------------------------------------
(* The values the pipeline's callers and services can supply *)

UserIds == {"test_user", "user_2"}

\* The source's meal kinds (achim, jeomsim: breakfast, lunch).
MealTypes == {"breakfast", "lunch"}

\* people_count is an unvalidated int argument; 0 fails MealRecord's ge=1.
PeopleCounts == {0, 1, 2}

MealIds == {"meal_1", "meal_2"}

Timestamps == {1700000000}

\* upload_image returns Optional[str]: an S3 URL, None, or (a mock's) "".
UploadReturns == {Some("https://s3/test.jpg"), Some("https://s3/other.jpg"),
                  Some(""), None}

\* The item of the repository's test fixture (kimchi stew) and a second dish.
SampleFoods ==
    {FoodItem("kimchi_stew", "1_serving",
              NutritionInfo(250000, 15000, 20000, 10000, None, None), 900),
     FoodItem("rice", "200g",
              NutritionInfo(310004, 68000, 5500, 555, Some(0), Some(1500)), 800)}

\* analyze_food_image returns a list (empty on its own failure); a mock's
\* None is falsy like the empty list and is the empty list here.
AnalyzeReturns == SeqUpTo(SampleFoods, MaxItems)

\* What an awaited service call can do: return a value or raise.
Returns(v) == [kind |-> "return", value |-> v]

Raises == [kind |-> "raise", value |-> None]

\* One service call of the log: the function, its argument, what it did.
Call(fn, arg, outcome) == [fn |-> fn, arg |-> arg, outcome |-> outcome]

CallsTo(fn) == SelectSeq(calls, LAMBDA c : c.fn = fn)

-----------------------------------------------------------------------------
(* FoodAnalysisPipeline.process_meal_image, one action per awaited step *)

\* The caller invokes process_meal_image: lines 51-55.
process_meal_image(user_id, meal_type, people_count, mid) ==
    /\ pc \in {"idle", "done"}
    /\ pc' = "upload"
    /\ call_args' = [user_id |-> user_id, meal_type |-> meal_type,
                     people_count |-> people_count, notes |-> None]
    /\ meal_id' = mid
    /\ image_url' = None
    /\ food_items' = << >>
    /\ meal_record' = None
    /\ success' = None
    /\ result' = None
    /\ calls' = << >>
    /\ OutsidePipeline

\* A slip: `if image_url is None` in place of `if not image_url`.
MutUploadStepIsNone(outcome) ==
    /\ pc = "upload"
    /\ calls' = Append(calls, Call("upload_image", Some(meal_id), outcome))
    /\ IF outcome.kind = "raise"
         THEN /\ pc' = "done"
              /\ result' = None
              /\ UNCHANGED image_url
         ELSE /\ image_url' = outcome.value
              /\ IF outcome.value = None
                   THEN pc' = "done" /\ result' = None
                   ELSE pc' = "analyze" /\ UNCHANGED result
    /\ UNCHANGED <<call_args, meal_id, food_items, meal_record, success>>
    /\ OutsidePipeline

\* Lines 57-68: await upload_image; no URL (or an exception) ends the call.
UploadStep(outcome) ==
    /\ pc = "upload"
    /\ calls' = Append(calls, Call("upload_image", Some(meal_id), outcome))
    /\ IF outcome.kind = "raise"
         THEN /\ pc' = "done"
              /\ result' = None
              /\ UNCHANGED image_url
         ELSE /\ image_url' = outcome.value
              /\ IF ~Truthy(outcome.value)
                   THEN pc' = "done" /\ result' = None
                   ELSE pc' = "analyze" /\ UNCHANGED result
    /\ UNCHANGED <<call_args, meal_id, food_items, meal_record, success>>
    /\ OutsidePipeline

\* A slip: the empty analysis is passed on as it is.
MutNoSubstitute(items) == items

\* Lines 77-80: an empty analysis is replaced by the one default item.
SubstituteDefault(items) ==
    IF items = << >> THEN <<create_default_food_item>> ELSE items

\* Lines 70-96: await analyze_food_image, substitute the default item,
\* total the nutrition and build the MealRecord (which validates).
AnalyzeStep(outcome, timestamp) ==
    /\ pc = "analyze"
    /\ calls' = Append(calls, Call("analyze_food_image", None, outcome))
    /\ IF outcome.kind = "raise"
         THEN /\ pc' = "done"
              /\ result' = None
              /\ UNCHANGED <<food_items, meal_record>>
         ELSE LET items == SubstituteDefault(outcome.value)
                  total_nutrition == calculate_total_nutrition(items)
              IN  /\ food_items' = items
                  /\ IF MealRecordValid(call_args.people_count)
                       THEN /\ meal_record' =
                                 Some(MealRecord(call_args.user_id, meal_id, timestamp,
                                                 call_args.meal_type, image_url, items,
                                                 total_nutrition, call_args.people_count,
                                                 call_args.notes))
                            /\ pc' = "save"
                            /\ UNCHANGED result
                       ELSE /\ pc' = "done"
                            /\ result' = None
                            /\ UNCHANGED meal_record
    /\ UNCHANGED <<call_args, meal_id, image_url, success>>
    /\ OutsidePipeline

\* A slip: the failed save returns None without the rollback.
MutSaveStepNoRollback(outcome) ==
    /\ pc = "save"
    /\ calls' = Append(calls, Call("save_meal_record", meal_record, outcome))
    /\ pc' = "done"
    /\ IF outcome.kind = "raise"
         THEN result' = None /\ UNCHANGED success
         ELSE /\ success' = Some(outcome.value)
              /\ result' = IF outcome.value THEN meal_record ELSE None
    /\ UNCHANGED <<call_args, meal_id, image_url, food_items, meal_record>>
    /\ OutsidePipeline

\* A slip: an exception of the save is compensated like a reported failure.
MutSaveStepRollsBackOnRaise(outcome) ==
    /\ pc = "save"
    /\ calls' = Append(calls, Call("save_meal_record", meal_record, outcome))
    /\ IF outcome.kind = "raise"
         THEN /\ pc' = "delete"
              /\ UNCHANGED <<result, success>>
         ELSE /\ success' = Some(outcome.value)
              /\ IF ~outcome.value
                   THEN pc' = "delete" /\ UNCHANGED result
                   ELSE pc' = "done" /\ result' = meal_record
    /\ UNCHANGED <<call_args, meal_id, image_url, food_items, meal_record>>
    /\ OutsidePipeline

\* Lines 98-109: await save_meal_record; a falsy return leads to the rollback.
SaveStep(outcome) ==
    /\ pc = "save"
    /\ calls' = Append(calls, Call("save_meal_record", meal_record, outcome))
    /\ IF outcome.kind = "raise"
         THEN /\ pc' = "done"
              /\ result' = None
              /\ UNCHANGED success
         ELSE /\ success' = Some(outcome.value)
              /\ IF ~outcome.value
                   THEN pc' = "delete" /\ UNCHANGED result
                   ELSE pc' = "done" /\ result' = meal_record
    /\ UNCHANGED <<call_args, meal_id, image_url, food_items, meal_record>>
    /\ OutsidePipeline

\* Lines 104-106 and 111-113: await delete_image(image_url), return None
\* whatever the deletion returns or raises.
DeleteStep(outcome) ==
    /\ pc = "delete"
    /\ outcome.kind \in {"return", "raise"}
    /\ calls' = Append(calls, Call("delete_image", image_url, outcome))
    /\ pc' = "done"
    /\ result' = None
    /\ UNCHANGED <<call_args, meal_id, image_url, food_items, meal_record, success>>
    /\ OutsidePipeline

PipelineInit ==
    /\ pc = "idle"
    /\ call_args = [user_id |-> "test_user", meal_type |-> "lunch",
                    people_count |-> 1, notes |-> None]
    /\ meal_id = "meal_1"
    /\ image_url = None
    /\ food_items = << >>
    /\ meal_record = None
    /\ success = None
    /\ result = None
    /\ calls = << >>

NutritionIdle ==
    /\ nutr_items = << >>
    /\ nutr_total = None

-----------------------------------------------------------------------------
(* _calculate_total_nutrition applied to every bounded list of food items *)

\* Amounts as an analysis can report them: whole, with a third decimal, zero.
CalorieValues == {0, 250000, 1234}

CarbValues == {30004}

FatValues == {10000, 555}

FiberValues == {None, Some(0), Some(2505)}

SodiumValues == {None, Some(1500)}

NutritionFoods ==
    {FoodItem("dish", "1_serving", NutritionInfo(c, cb, 20000, f, fi, so), 900) :
        c \in CalorieValues, cb \in CarbValues, f \in FatValues,
        fi \in FiberValues, so \in SodiumValues}

\* total_nutrition = self._calculate_total_nutrition(food_items)
ApplyCalculate ==
    /\ nutr_total = None
    /\ nutr_total' = Some(calculate_total_nutrition(nutr_items))
    /\ UNCHANGED nutr_items
    /\ OutsideNutrition

-----------------------------------------------------------------------------
(* ToolRegistry (backend/agents/tools/tool_registry.py) *)

MaxInvocations == 2

\* A tool function: the module it is imported from, its name, and whether
\* it is an `async def` (asyncio.iscoroutinefunction).
Function(module, name, is_async) ==
    [module |-> module, name |-> name, is_async |-> is_async]

\* Tool(name, description, parameters, function); the description is prose.
Tool(name, parameters, function) ==
    [name |-> name, parameters |-> parameters, function |-> function]

Registration(name, parameters, function) ==
    [name |-> name, parameters |-> parameters, function |-> function]

\* A copy-and-paste slip: the last tool is registered under the name of
\* another one and overwrites it.
MutRegistrationsDuplicateName ==
    << Registration("analyze_food_image", {"user_id", "image_data", "meal_type"},
                    Function("diet_tools", "analyze_food_image", TRUE)),
       Registration("get_nutrition_history", {"user_id", "days"},
                    Function("diet_tools", "get_nutrition_history", TRUE)),
       Registration("calculate_daily_nutrition", {"user_id", "date"},
                    Function("diet_tools", "calculate_daily_nutrition", TRUE)),
       Registration("save_meal_record", {"user_id", "meal_data"},
                    Function("diet_tools", "save_meal_record", TRUE)),
       Registration("generate_personalized_advice", {"user_id", "context"},
                    Function("coaching_tools", "generate_personalized_advice", TRUE)),
       Registration("recommend_exercise", {"user_id", "current_activity"},
                    Function("coaching_tools", "recommend_exercise", TRUE)),
       Registration("check_health_progress", {"user_id", "period"},
                    Function("coaching_tools", "check_health_progress", TRUE)),
       Registration("create_meal_plan", {"user_id", "duration", "preferences"},
                    Function("coaching_tools", "create_meal_plan", TRUE)),
       Registration("check_upcoming_events", {"user_id", "days_ahead"},
                    Function("schedule_tools", "check_upcoming_events", TRUE)),
       Registration("set_meal_reminder", {"user_id", "meal_type", "time"},
                    Function("schedule_tools", "set_meal_reminder", TRUE)),
       Registration("analyze_schedule_impact", {"user_id", "event_type", "date"},
                    Function("schedule_tools", "analyze_schedule_impact", TRUE)),
       Registration("get_user_profile", {"user_id"},
                    Function("user_tools", "get_user_profile", TRUE)),
       Registration("update_user_goals", {"user_id", "new_goals"},
                    Function("user_tools", "update_user_goals", TRUE)),
       Registration("get_user_profile", {"user_id"},
                    Function("user_tools", "get_user_preferences", TRUE)) >>

\* The _register_tool calls of _register_all_tools, in order (lines 60-159).
Registrations ==
    << Registration("analyze_food_image", {"user_id", "image_data", "meal_type"},
                    Function("diet_tools", "analyze_food_image", TRUE)),
       Registration("get_nutrition_history", {"user_id", "days"},
                    Function("diet_tools", "get_nutrition_history", TRUE)),
       Registration("calculate_daily_nutrition", {"user_id", "date"},
                    Function("diet_tools", "calculate_daily_nutrition", TRUE)),
       Registration("save_meal_record", {"user_id", "meal_data"},
                    Function("diet_tools", "save_meal_record", TRUE)),
       Registration("generate_personalized_advice", {"user_id", "context"},
                    Function("coaching_tools", "generate_personalized_advice", TRUE)),
       Registration("recommend_exercise", {"user_id", "current_activity"},
                    Function("coaching_tools", "recommend_exercise", TRUE)),
       Registration("check_health_progress", {"user_id", "period"},
                    Function("coaching_tools", "check_health_progress", TRUE)),
       Registration("create_meal_plan", {"user_id", "duration", "preferences"},
                    Function("coaching_tools", "create_meal_plan", TRUE)),
       Registration("check_upcoming_events", {"user_id", "days_ahead"},
                    Function("schedule_tools", "check_upcoming_events", TRUE)),
       Registration("set_meal_reminder", {"user_id", "meal_type", "time"},
                    Function("schedule_tools", "set_meal_reminder", TRUE)),
       Registration("analyze_schedule_impact", {"user_id", "event_type", "date"},
                    Function("schedule_tools", "analyze_schedule_impact", TRUE)),
       Registration("get_user_profile", {"user_id"},
                    Function("user_tools", "get_user_profile", TRUE)),
       Registration("update_user_goals", {"user_id", "new_goals"},
                    Function("user_tools", "update_user_goals", TRUE)),
       Registration("get_user_preferences", {"user_id"},
                    Function("user_tools", "get_user_preferences", TRUE)) >>

\* ToolRegistry._register_tool: self.tools[name] = Tool(...)
register_tool(registry, name, parameters, function) ==
    [n \in DOMAIN registry \cup {name} |->
        IF n = name THEN Tool(name, parameters, function) ELSE registry[n]]

RECURSIVE RegisterFirst(_, _)
\* The registry after the first k calls of _register_all_tools.
RegisterFirst(regs, k) ==
    IF k = 0 THEN << >>
    ELSE register_tool(RegisterFirst(regs, k - 1), regs[k].name,
                       regs[k].parameters, regs[k].function)

\* ToolRegistry._register_all_tools, from the empty self.tools.
register_all_tools == RegisterFirst(Registrations, Len(Registrations))

\* Names a caller may ask for: registered ones and two that are not.
RequestedNames ==
    {Registrations[i].name : i \in 1..Len(Registrations)}
        \cup {"create_user_profile", "no_such_tool"}

Kwargs == {[user_id |-> "u1"], [user_id |-> "u2"]}

\* What the invoked tool does: returns a result dict, returns an error dict,
\* or raises.
ToolOutcomes ==
    {[kind |-> "return", value |-> Some("result")],
     [kind |-> "return", value |-> Some("error_dict")],
     [kind |-> "raise", value |-> Some("tool exception")]}

UnknownTool == [kind |-> "raise", value |-> Some("ValueError: Unknown tool")]

Invocation(function, how, kwargs) ==
    [function |-> function, how |-> how, kwargs |-> kwargs]

\* A slip: an unregistered name is answered with an error value in place of
\* the exception, and a registered tool's result is wrapped.
MutExecuteToolWrapsResult(tool_name, kwargs, tool_outcome) ==
    /\ Len(invoke_log) < MaxInvocations
    /\ IF tool_name \notin DOMAIN tools
         THEN /\ exec_reply' = Some([tool_name |-> tool_name, kwargs |-> kwargs,
                                     invoked |-> << >>, tool_outcome |-> tool_outcome,
                                     outcome |-> [kind |-> "return",
                                                  value |-> Some("error_dict")]])
              /\ UNCHANGED invoke_log
         ELSE LET tool == tools[tool_name]
                  how == IF tool.function.is_async THEN "await" ELSE "call"
              IN  /\ exec_reply' =
                        Some([tool_name |-> tool_name, kwargs |-> kwargs,
                              invoked |-> <<Invocation(tool.function, how, kwargs)>>,
                              tool_outcome |-> tool_outcome,
                              outcome |-> IF tool_outcome.kind = "return"
                                            THEN [kind |-> "return",
                                                  value |-> Some("wrapped")]
                                            ELSE tool_outcome])
                  /\ invoke_log' = Append(invoke_log, tool.function.name)
    /\ UNCHANGED tools
    /\ OutsideRegistry

\* ToolRegistry.execute_tool (lines 212-222); the awaited tool's own outcome
\* is tool_outcome, and an exception of the tool propagates.
execute_tool(tool_name, kwargs, tool_outcome) ==
    /\ Len(invoke_log) < MaxInvocations
    /\ IF tool_name \notin DOMAIN tools
         THEN /\ exec_reply' = Some([tool_name |-> tool_name, kwargs |-> kwargs,
                                     invoked |-> << >>, tool_outcome |-> tool_outcome,
                                     outcome |-> UnknownTool])
              /\ UNCHANGED invoke_log
         ELSE LET tool == tools[tool_name]
                  how == IF tool.function.is_async THEN "await" ELSE "call"
              IN  /\ exec_reply' =
                        Some([tool_name |-> tool_name, kwargs |-> kwargs,
                              invoked |-> <<Invocation(tool.function, how, kwargs)>>,
                              tool_outcome |-> tool_outcome,
                              outcome |-> tool_outcome])
                  /\ invoke_log' = Append(invoke_log, tool.function.name)
    /\ UNCHANGED tools
    /\ OutsideRegistry

\* ToolRegistry.__init__
RegistryConstructed ==
    /\ tools = register_all_tools
    /\ invoke_log = << >>
    /\ exec_reply = None

RegistryNext ==
    \E n \in RequestedNames, k \in Kwargs, o \in ToolOutcomes : execute_tool(n, k, o)

-----------------------------------------------------------------------------
(* PerformanceCache and EnhancedMCPIntegration (backend/agents/api/mcp_integration.py) *)

MaxNow == 780

MaxToolRuns == 2

ToolsTtl == 600

ResponseTtl == 180

\* How far the clock moves between two events: the response TTL, and the
\* rest of the catalog TTL.
ClockSteps == {180, 420}

Entry(data, timestamp) == [data |-> data, timestamp |-> timestamp]

\* A slip: `<=` in place of `<`, so an entry exactly TTL seconds old is served.
MutCacheGetServesAtTtl(cache, ttl, key, t) ==
    IF key \in DOMAIN cache
      THEN IF t - cache[key].timestamp <= ttl
             THEN [cache |-> cache, value |-> Some(cache[key].data)]
             ELSE [cache |-> [k \in DOMAIN cache \ {key} |-> cache[k]],
                   value |-> None]
      ELSE [cache |-> cache, value |-> None]

\* PerformanceCache.get at time t: the cache afterwards and the value
\* returned (None for a miss).
cache_get(cache, ttl, key, t) ==
    IF key \in DOMAIN cache
      THEN IF t - cache[key].timestamp < ttl
             THEN [cache |-> cache, value |-> Some(cache[key].data)]
             ELSE [cache |-> [k \in DOMAIN cache \ {key} |-> cache[k]],
                   value |-> None]
      ELSE [cache |-> cache, value |-> None]

\* PerformanceCache.set at time t.
cache_set(cache, key, value, t) ==
    [k \in DOMAIN cache \cup {key} |->
        IF k = key THEN Entry(value, t) ELSE cache[k]]

\* PerformanceCache._generate_key(tool_name, args): the MD5 digest of
\* str((tool_name, args)) + str([]); the digest is taken to be injective, and
\* str of a dict lists its items in insertion order.
generate_key(tool_name, args) == <<tool_name, args>>

\* What get found, for the record of the last lookup.
Lookup(which, ttl, cache, key, t, got) ==
    [cache |-> which, ttl |-> ttl, key |-> key,
     had |-> key \in DOMAIN cache,
     stored |-> IF key \in DOMAIN cache THEN Some(cache[key].data) ELSE None,
     age |-> IF key \in DOMAIN cache THEN t - cache[key].timestamp ELSE 0,
     returned |-> got.value,
     kept |-> key \in DOMAIN got.cache]

\* The catalog of /mcp/tools/list (lines 58-127): five tools.
Catalog ==
    [tools |-> <<"analyze_food_image", "get_nutrition_history",
                 "create_user_profile", "get_user_context", "update_user_weight">>]

\* The tools _execute_tool_optimized dispatches (lines 164-192).
DispatchedTools ==
    {"analyze_food_image", "get_nutrition_history", "create_user_profile",
     "get_user_context", "update_user_weight"}

\* Requests of /mcp/tools/call: the arguments are a dict, here its items in
\* insertion order.
Requests ==
    {[name |-> "get_user_context", arguments |-> << <<"user_id", "u1">> >>],
     [name |-> "update_user_weight",
      arguments |-> << <<"user_id", "u1">>, <<"new_weight", "70">> >>],
     [name |-> "update_user_weight",
      arguments |-> << <<"new_weight", "70">>, <<"user_id", "u1">> >>],
     [name |-> "no_such_tool", arguments |-> << >>]}

\* What a dispatched tool does: returns a dict without "error", returns a
\* dict with "error", or raises.
DictOutcomes ==
    {[kind |-> "return", value |-> Some([error |-> None, data |-> "data"])],
     [kind |-> "return", value |-> Some([error |-> Some("failed"), data |-> ""])],
     [kind |-> "raise", value |-> None]}

\* _execute_tool_optimized: a dispatched tool's own outcome; any other name
\* falls through every branch and returns None.
execute_tool_optimized(tool_name, tool_outcome) ==
    IF tool_name \in DispatchedTools
      THEN tool_outcome
      ELSE [kind |-> "return", value |-> None]

\* args["new_weight"]: the value of a key of the arguments.
ArgValue(arguments, key) ==
    arguments[CHOOSE i \in 1..Len(arguments) : arguments[i][1] = key][2]

\* The dict a tool returns when it succeeds, by what it reads and writes in
\* the user table: get_user_context reports the stored weight,
\* update_user_weight the new weight it has saved (user_rag_tools.py 99-190).
ToolResult(request, done, weight) ==
    IF done.kind = "return" /\ done.value # None /\ Get(done.value).error = None
      THEN [kind |-> "return",
            value |-> Some([error |-> None,
                            data |-> CASE request.name = "get_user_context" -> weight
                                       [] request.name = "update_user_weight" ->
                                            ArgValue(request.arguments, "new_weight")
                                       [] OTHER -> Get(done.value).data])]
      ELSE done

\* The stored weight after a tool has ended: update_user_weight saves its
\* new_weight when it succeeds.
WeightAfter(request, done, weight) ==
    IF /\ request.name = "update_user_weight"
       /\ done.kind = "return" /\ done.value # None /\ Get(done.value).error = None
      THEN ArgValue(request.arguments, "new_weight")
      ELSE weight

\* {"content": [{"type": "text", "text": json.dumps(result)}], "isError": False}
OkResponse(res) == [content |-> <<"json", res>>, isError |-> FALSE]

\* The except branch's response (lines 156-160).
ErrorResponse == [content |-> <<"text", "tool execution error">>, isError |-> TRUE]

\* The clock advances.
Tick(d) ==
    /\ now + d <= MaxNow
    /\ now' = now + d
    /\ UNCHANGED <<tools_cache, response_cache, in_flight, tool_runs, lookup, mcp_reply,
                   stored_weight>>
    /\ OutsideMcp

\* POST /mcp/tools/list (lines 52-130).
list_tools ==
    LET got == cache_get(tools_cache, ToolsTtl, "tools_list", now)
    IN  /\ in_flight = << >>
        /\ lookup' = Some(Lookup("tools", ToolsTtl, tools_cache, "tools_list", now, got))
        /\ IF got.value # None
             THEN /\ tools_cache' = got.cache
                  /\ mcp_reply' = Some([endpoint |-> "list", cached |-> TRUE,
                                        response |-> got.value])
             ELSE /\ tools_cache' = cache_set(got.cache, "tools_list", Catalog, now)
                  /\ mcp_reply' = Some([endpoint |-> "list", cached |-> FALSE,
                                        response |-> Some(Catalog)])
        /\ UNCHANGED <<now, response_cache, in_flight, tool_runs, stored_weight>>
        /\ OutsideMcp

\* A slip: the awaited tool execution suspends, so that the event loop can
\* start the handler of another request before this one has stored its
\* response.
MutCallToolEnhancedOverlaps(request) ==
    LET cache_key == generate_key(request.name, request.arguments)
        got == cache_get(response_cache, ResponseTtl, cache_key, now)
    IN  /\ lookup' = Some(Lookup("response", ResponseTtl, response_cache, cache_key,
                                 now, got))
        /\ response_cache' = got.cache
        /\ IF got.value # None
             THEN /\ mcp_reply' = Some([endpoint |-> "call", cached |-> TRUE,
                                        response |-> got.value])
                  /\ UNCHANGED <<in_flight, tool_runs>>
             ELSE /\ Len(tool_runs) < MaxToolRuns
                  /\ in_flight' = Append(in_flight, [request |-> request,
                                                     cache_key |-> cache_key])
                  /\ tool_runs' = Append(tool_runs, request.name)
                  /\ UNCHANGED mcp_reply
        /\ UNCHANGED <<now, tools_cache, stored_weight>>
        /\ OutsideMcp

\* POST /mcp/tools/call up to its await (lines 134-144): the cache lookup,
\* then either the cached response or the start of the tool execution. The
\* handler starts only when no other is under way: what it awaits never
\* suspends (every tool and service coroutine awaits only coroutines of the
\* repository, which end in blocking boto3 calls), so the event loop runs a
\* handler from its lookup to its return before it starts the next.
call_tool_enhanced(request) ==
    LET cache_key == generate_key(request.name, request.arguments)
        got == cache_get(response_cache, ResponseTtl, cache_key, now)
    IN  /\ in_flight = << >>
        /\ lookup' = Some(Lookup("response", ResponseTtl, response_cache, cache_key,
                                 now, got))
        /\ response_cache' = got.cache
        /\ IF got.value # None
             THEN /\ mcp_reply' = Some([endpoint |-> "call", cached |-> TRUE,
                                        response |-> got.value])
                  /\ UNCHANGED <<in_flight, tool_runs>>
             ELSE /\ Len(tool_runs) < MaxToolRuns
                  /\ in_flight' = Append(in_flight, [request |-> request,
                                                     cache_key |-> cache_key])
                  /\ tool_runs' = Append(tool_runs, request.name)
                  /\ UNCHANGED mcp_reply
        /\ UNCHANGED <<now, tools_cache, stored_weight>>
        /\ OutsideMcp

\* A slip: the response is cached whatever the tool's result was.
MutCallToolFinishAlwaysStores(i, tool_outcome) ==
    /\ i \in 1..Len(in_flight)
    /\ LET req == in_flight[i]
           done == ToolResult(req.request,
                              execute_tool_optimized(req.request.name, tool_outcome),
                              stored_weight)
           raised == done.kind = "raise" \/ done.value = None
           response == IF raised THEN ErrorResponse ELSE OkResponse(Get(done.value))
       IN  /\ response_cache' = cache_set(response_cache, req.cache_key, response, now)
           /\ mcp_reply' = Some([endpoint |-> "call", cached |-> FALSE,
                                 response |-> Some(response)])
    /\ stored_weight' =
          WeightAfter(in_flight[i].request,
                      execute_tool_optimized(in_flight[i].request.name, tool_outcome),
                      stored_weight)
    /\ in_flight' = [j \in 1..(Len(in_flight) - 1) |->
                        IF j < i THEN in_flight[j] ELSE in_flight[j + 1]]
    /\ UNCHANGED <<now, tools_cache, tool_runs, lookup>>
    /\ OutsideMcp

\* A slip: a successful update_user_weight drops the cached responses of the
\* other tools, as an invalidation on write would.
MutCallToolFinishInvalidates(i, tool_outcome) ==
    /\ i \in 1..Len(in_flight)
    /\ LET req == in_flight[i]
           done == ToolResult(req.request,
                              execute_tool_optimized(req.request.name, tool_outcome),
                              stored_weight)
           raised == done.kind = "raise" \/ done.value = None
           response == IF raised THEN ErrorResponse ELSE OkResponse(Get(done.value))
           store == ~raised /\ Get(done.value).error = None
           kept == IF store /\ req.request.name = "update_user_weight"
                     THEN [k \in {c \in DOMAIN response_cache : c[1] = "update_user_weight"}
                             |-> response_cache[k]]
                     ELSE response_cache
       IN  /\ response_cache' =
                 IF store THEN cache_set(kept, req.cache_key, response, now)
                 ELSE response_cache
           /\ mcp_reply' = Some([endpoint |-> "call", cached |-> FALSE,
                                 response |-> Some(response)])
    /\ stored_weight' =
          WeightAfter(in_flight[i].request,
                      execute_tool_optimized(in_flight[i].request.name, tool_outcome),
                      stored_weight)
    /\ in_flight' = [j \in 1..(Len(in_flight) - 1) |->
                        IF j < i THEN in_flight[j] ELSE in_flight[j + 1]]
    /\ UNCHANGED <<now, tools_cache, tool_runs, lookup>>
    /\ OutsideMcp

\* POST /mcp/tools/call after its await (lines 144-160): the i-th request in
\* flight gets its tool's outcome, caches a result without "error", answers.
call_tool_finish(i, tool_outcome) ==
    /\ i \in 1..Len(in_flight)
    /\ LET req == in_flight[i]
           done == ToolResult(req.request,
                              execute_tool_optimized(req.request.name, tool_outcome),
                              stored_weight)
           \* result.get("error") on None raises AttributeError: the except branch
           raised == done.kind = "raise" \/ done.value = None
           response == IF raised THEN ErrorResponse ELSE OkResponse(Get(done.value))
           store == ~raised /\ Get(done.value).error = None
       IN  /\ response_cache' =
                 IF store THEN cache_set(response_cache, req.cache_key, response, now)
                 ELSE response_cache
           /\ mcp_reply' = Some([endpoint |-> "call", cached |-> FALSE,
                                 response |-> Some(response)])
    /\ stored_weight' =
          WeightAfter(in_flight[i].request,
                      execute_tool_optimized(in_flight[i].request.name, tool_outcome),
                      stored_weight)
    /\ in_flight' = [j \in 1..(Len(in_flight) - 1) |->
                        IF j < i THEN in_flight[j] ELSE in_flight[j + 1]]
    /\ UNCHANGED <<now, tools_cache, tool_runs, lookup>>
    /\ OutsideMcp

\* EnhancedMCPIntegration.__init__: two empty caches.
McpConstructed ==
    /\ now = 0
    /\ tools_cache = << >>
    /\ response_cache = << >>
    /\ in_flight = << >>
    /\ tool_runs = << >>
    /\ lookup = None
    /\ mcp_reply = None
    /\ stored_weight = "60"

McpNext ==
    \/ \E d \in ClockSteps : Tick(d)
    \/ list_tools
    \/ \E r \in Requests : call_tool_enhanced(r)
    \/ \E i \in 1..MaxToolRuns, o \in DictOutcomes : call_tool_finish(i, o)

-----------------------------------------------------------------------------
(* BedrockAgentDietCoach (backend/agents/core/bedrock_agent.py) *)

\* max_retries of _analyze_food_image.
MaxRetries == 3

\* user_input of process_input.
CoachInputs == {"what should I eat", ""}

\* user_id of process_input: a str, or None, whose .encode raises in the try
\* block of process_input.
CoachUserIds == {Some("u1"), Some("user_kr"), None}

\* context of process_input: None, a dict without "image_data" (empty or
\* not), a dict whose "image_data" is bytes, a dict whose "image_data" is None.
CoachContexts ==
    {None,
     Some([empty |-> TRUE, has_image |-> FALSE, image_data |-> "absent"]),
     Some([empty |-> FALSE, has_image |-> FALSE, image_data |-> "absent"]),
     Some([empty |-> FALSE, has_image |-> TRUE, image_data |-> "bytes"]),
     Some([empty |-> FALSE, has_image |-> TRUE, image_data |-> "none"])}

\* get_personalized_user_context: a dict without "error", a dict with
\* "error", or a raise.
ContextOutcomes == {"profile", "error", "raise"}

\* bedrock-runtime converse: a response with a text, a response without the
\* expected keys, a ThrottlingException, any other exception.
ConverseOutcomes == {"text", "malformed", "throttled", "raise"}

\* One entry of the record of what a call has invoked.
Invoked(call, outcome) == [call |-> call, outcome |-> outcome]

\* The envelope of the text path on success (lines 200-206).
ClaudeSuccess(text) ==
    [success |-> TRUE, response |-> text, error |-> None,
     agent_used |-> Some(FALSE)]

\* The envelope of the catch-all of _fallback_to_claude (lines 208-214); the
\* response is "joesonghamnida. hyeonjae seobiseue munjega itseumnida."
ClaudeFailure ==
    [success |-> FALSE, response |-> "sorry_service_has_a_problem",
     error |-> Some("str(e)"), agent_used |-> None]

\* The envelope of _analyze_food_image on success (lines 291-297).
ImageSuccess(text) ==
    [success |-> TRUE, response |-> text, error |-> None,
     agent_used |-> Some(FALSE)]

\* The envelope of the catch-all of _analyze_food_image (lines 299-308); the
\* response is "imiji bunseoge silpaehaetseumnida. dasi sidohae juseyo."
ImageFailure ==
    [success |-> FALSE, response |-> "image_analysis_failed_try_again",
     error |-> Some("str(e)"), agent_used |-> None]

\* context and "image_data" in context
HasImage(context) ==
    /\ context # None
    /\ ~Get(context).empty
    /\ Get(context).has_image

\* process_input up to the first await of _fallback_to_claude (lines 47-123):
\* whether the try block completes or user_id.encode raises, the call goes to
\* _fallback_to_claude, which takes the image path or the text path.
process_input(user_input, user_id, context) ==
    /\ coach_pc \in {"idle", "done"}
    /\ coach_args' = [user_input |-> user_input, user_id |-> user_id,
                      context |-> context,
                      route |-> IF user_id = None THEN "except" ELSE "try"]
    /\ coach_log' = <<Invoked("_fallback_to_claude", "entered")>>
    /\ coach_attempt' = 0
    /\ coach_sleeps' = << >>
    /\ coach_context_text' = None
    /\ IF HasImage(context)
         THEN IF Get(context).image_data = "none"
                \* len(context['image_data']) raises: the catch-all of line 208
                THEN /\ coach_pc' = "done"
                     /\ coach_reply' = Some(Returns(Some(ClaudeFailure)))
                ELSE /\ coach_pc' = "image"
                     /\ coach_reply' = None
         ELSE /\ coach_pc' = "context1"
              /\ coach_reply' = None
    /\ OutsideCoach

\* The text path's context lookup (lines 119-159): first with user_id, then,
\* on a dict with "error", with the hashed user_id; any exception gives the
\* lookup-error text.
ContextStep(outcome) ==
    /\ coach_pc \in {"context1", "context2"}
    /\ coach_log' = Append(coach_log, Invoked("get_personalized_user_context", outcome))
    /\ IF outcome = "profile"
         THEN /\ coach_context_text' = Some("profile")
              /\ coach_pc' = "converse"
         ELSE IF outcome = "raise"
           THEN /\ coach_context_text' = Some("lookup_error")
                /\ coach_pc' = "converse"
           ELSE IF coach_pc = "context2"
             THEN /\ coach_context_text' = Some("not_found")
                  /\ coach_pc' = "converse"
             ELSE IF coach_args.user_id = None
               \* user_id.encode raises inside the inner try
               THEN /\ coach_context_text' = Some("lookup_error")
                    /\ coach_pc' = "converse"
               ELSE /\ coach_context_text' = None
                    /\ coach_pc' = "context2"
    /\ UNCHANGED <<coach_args, coach_attempt, coach_sleeps, coach_reply>>
    /\ OutsideCoach

\* A slip: no catch-all around the text path, so an exception of converse
\* reaches the caller of process_input.
MutConverseStepPropagates(outcome) ==
    /\ coach_pc = "converse"
    /\ coach_log' = Append(coach_log, Invoked("bedrock-runtime.converse", outcome))
    /\ coach_reply' = IF outcome = "text"
                        THEN Some(Returns(Some(ClaudeSuccess("llm_text"))))
                        ELSE Some(Raises)
    /\ coach_pc' = "done"
    /\ UNCHANGED <<coach_args, coach_attempt, coach_sleeps, coach_context_text>>
    /\ OutsideCoach

\* The text path's LLM call (lines 184-214).
ConverseStep(outcome) ==
    /\ coach_pc = "converse"
    /\ coach_log' = Append(coach_log, Invoked("bedrock-runtime.converse", outcome))
    /\ coach_reply' = IF outcome = "text"
                        THEN Some(Returns(Some(ClaudeSuccess("llm_text"))))
                        ELSE Some(Returns(Some(ClaudeFailure)))
    /\ coach_pc' = "done"
    /\ UNCHANGED <<coach_args, coach_attempt, coach_sleeps, coach_context_text>>
    /\ OutsideCoach

\* wait_time of the retry loop (line 281).
WaitTime(attempt) == (attempt + 1) * 3

\* A slip: the loop retries after every exception, not only after a
\* ThrottlingException.
MutImageStepRetriesEveryError(outcome) ==
    /\ coach_pc = "image"
    /\ coach_log' = Append(coach_log, Invoked("bedrock-runtime.converse", outcome))
    /\ IF outcome \in {"throttled", "raise"} /\ coach_attempt < MaxRetries - 1
         THEN /\ coach_attempt' = coach_attempt + 1
              /\ coach_sleeps' = Append(coach_sleeps, WaitTime(coach_attempt))
              /\ coach_pc' = "image"
              /\ UNCHANGED coach_reply
         ELSE /\ coach_reply' = IF outcome = "text"
                                  THEN Some(Returns(Some(ImageSuccess("llm_text"))))
                                  ELSE Some(Returns(Some(ImageFailure)))
              /\ coach_pc' = "done"
              /\ UNCHANGED <<coach_attempt, coach_sleeps>>
    /\ UNCHANGED <<coach_args, coach_context_text>>
    /\ OutsideCoach

\* One attempt of the retry loop of _analyze_food_image (lines 268-308): a
\* ThrottlingException before the last attempt is followed by a sleep and the
\* next attempt; any other exception, a ThrottlingException on the last
\* attempt and a response without a text end in the catch-all.
ImageStep(outcome) ==
    /\ coach_pc = "image"
    /\ coach_log' = Append(coach_log, Invoked("bedrock-runtime.converse", outcome))
    /\ IF outcome = "throttled" /\ coach_attempt < MaxRetries - 1
         THEN /\ coach_attempt' = coach_attempt + 1
              /\ coach_sleeps' = Append(coach_sleeps, WaitTime(coach_attempt))
              /\ coach_pc' = "image"
              /\ UNCHANGED coach_reply
         ELSE /\ coach_reply' = IF outcome = "text"
                                  THEN Some(Returns(Some(ImageSuccess("llm_text"))))
                                  ELSE Some(Returns(Some(ImageFailure)))
              /\ coach_pc' = "done"
              /\ UNCHANGED <<coach_attempt, coach_sleeps>>
    /\ UNCHANGED <<coach_args, coach_context_text>>
    /\ OutsideCoach

\* No call in flight.
CoachIdle ==
    /\ coach_pc = "idle"
    /\ coach_args = None
    /\ coach_log = << >>
    /\ coach_attempt = 0
    /\ coach_sleeps = << >>
    /\ coach_context_text = None
    /\ coach_reply = None

CoachNext ==
    \/ \E i \in CoachInputs, u \in CoachUserIds, c \in CoachContexts :
           process_input(i, u, c)
    \/ \E o \in ContextOutcomes : ContextStep(o)
    \/ \E o \in ConverseOutcomes : ConverseStep(o)
    \/ \E o \in ConverseOutcomes : ImageStep(o)

-----------------------------------------------------------------------------
(* Agent API POST /chat (backend/agents/api/agent_api.py) *)

\* str.lower() on the characters that occur in the file names below.
LowerChar(c) ==
    CASE c = "A" -> "a"
      [] c = "G" -> "g"
      [] c = "J" -> "j"
      [] c = "N" -> "n"
      [] c = "P" -> "p"
      [] OTHER -> c

\* str.lower(), a string being the sequence of its characters.
Lower(s) == [i \in 1..Len(s) |-> LowerChar(s[i])]

\* str.endswith
EndsWith(s, suffix) ==
    /\ Len(suffix) <= Len(s)
    /\ SubSeq(s, Len(s) - Len(suffix) + 1, Len(s)) = suffix

\* allowed_extensions (line 76)
AllowedExtensions ==
    {<<".", "j", "p", "g">>, <<".", "j", "p", "e", "g">>, <<".", "p", "n", "g">>,
     <<".", "g", "i", "f">>, <<".", "b", "m", "p">>}

\* any(image.filename.lower().endswith(ext) for ext in allowed_extensions)
ExtensionAllowed(filename) ==
    \E ext \in AllowedExtensions : EndsWith(Lower(filename), ext)

\* File names of the uploads: "a.jpg", "A.JPG", "a.png", ".gif", "a.txt",
\* "jpg", "a.jpg.exe", "a.pn", and the empty name.
Filenames ==
    {<<"a", ".", "j", "p", "g">>, <<"A", ".", "J", "P", "G">>,
     <<"a", ".", "p", "n", "g">>, <<".", "g", "i", "f">>,
     <<"a", ".", "t", "x", "t">>, <<"j", "p", "g">>,
     <<"a", ".", "j", "p", "g", ".", "e", "x", "e">>, <<"a", ".", "p", "n">>,
     << >>}

\* image of the request: None, or an UploadFile with its file name.
Images == {None} \cup {Some([filename |-> f]) : f \in Filenames}

ChatUserIds == {"u1", "u2"}

ChatMessages == {"hello", ""}

\* What image.read() does.
ReadOutcomes == {Returns(Some("bytes")), Raises}

\* What bedrock_agent_coach.process_input does, as far as this handler can
\* tell: one of its envelopes, or a raise.
CoachOutcomes ==
    {Returns(Some(ClaudeSuccess("llm_text"))), Returns(Some(ClaudeFailure)),
     Returns(Some(ImageFailure)), Raises}

\* APIResponse(success=..., message=..., data=...) returned by the handler:
\* FastAPI answers with status 200.
ChatOk(envelope) ==
    [status |-> 200,
     body |-> [success |-> envelope.success, message |-> "request processed",
               data |-> [error |-> None, result |-> Some(envelope)]]]

\* The except branch's APIResponse (lines 101-109), status 200.
ChatError(error) ==
    [status |-> 200,
     body |-> [success |-> FALSE, message |-> "an error occurred",
               data |-> [error |-> Some(error), result |-> None]]]

\* str(HTTPException(status_code=400, detail=...))
RejectedText == "400: only image files can be uploaded"

\* A slip: `except HTTPException: raise` before the catch-all, so the
\* rejection reaches FastAPI and is answered with status 400.
MutChatRejectionPropagates(user_id, message, image) ==
    /\ chat_pc \in {"idle", "done"}
    /\ chat_args' = Some([user_id |-> user_id, message |-> message, image |-> image])
    /\ chat_coach_calls' = << >>
    /\ chat_context' = [image_data |-> None, image_filename |-> None]
    /\ IF image # None /\ Get(image).filename # << >>
         THEN IF ~ExtensionAllowed(Get(image).filename)
                THEN /\ chat_pc' = "done"
                     /\ chat_reply' =
                           Some([status |-> 400,
                                 body |-> [success |-> FALSE, message |-> "",
                                           data |-> [error |-> Some(RejectedText),
                                                     result |-> None]]])
                ELSE /\ chat_pc' = "read"
                     /\ chat_reply' = None
         ELSE /\ chat_pc' = "coach"
              /\ chat_reply' = None
    /\ OutsideChat

\* chat_with_agent up to its first await (lines 69-81): an image with a file
\* name must end in an allowed extension, or HTTPException(400) is raised
\* inside the try block and lands in the except branch.
chat_with_agent(user_id, message, image) ==
    /\ chat_pc \in {"idle", "done"}
    /\ chat_args' = Some([user_id |-> user_id, message |-> message, image |-> image])
    /\ chat_coach_calls' = << >>
    /\ chat_context' = [image_data |-> None, image_filename |-> None]
    /\ IF image # None /\ Get(image).filename # << >>
         THEN IF ~ExtensionAllowed(Get(image).filename)
                THEN /\ chat_pc' = "done"
                     /\ chat_reply' = Some(ChatError(RejectedText))
                ELSE /\ chat_pc' = "read"
                     /\ chat_reply' = None
         ELSE /\ chat_pc' = "coach"
              /\ chat_reply' = None
    /\ OutsideChat

\* image_data = await image.read() (lines 81-84)
ChatReadStep(outcome) ==
    /\ chat_pc = "read"
    /\ IF outcome.kind = "raise"
         THEN /\ chat_pc' = "done"
              /\ chat_reply' = Some(ChatError("read failed"))
              /\ UNCHANGED chat_context
         ELSE /\ chat_pc' = "coach"
              /\ chat_context' = [image_data |-> outcome.value,
                                  image_filename |-> Some(Get(Get(chat_args).image).filename)]
              /\ UNCHANGED chat_reply
    /\ UNCHANGED <<chat_args, chat_coach_calls>>
    /\ OutsideChat

\* result = await bedrock_agent_coach.process_input(...) and the return
\* (lines 90-109).
ChatCoachStep(outcome) ==
    /\ chat_pc = "coach"
    /\ chat_coach_calls' =
          Append(chat_coach_calls,
                 [user_input |-> Get(chat_args).message,
                  user_id |-> Get(chat_args).user_id, context |-> chat_context])
    /\ chat_reply' = IF outcome.kind = "raise"
                       THEN Some(ChatError("coach failed"))
                       ELSE Some(ChatOk(Get(outcome.value)))
    /\ chat_pc' = "done"
    /\ UNCHANGED <<chat_args, chat_context>>
    /\ OutsideChat

\* No request in flight.
ChatIdle ==
    /\ chat_pc = "idle"
    /\ chat_args = None
    /\ chat_context = [image_data |-> None, image_filename |-> None]
    /\ chat_coach_calls = << >>
    /\ chat_reply = None

ChatNext ==
    \/ \E u \in ChatUserIds, m \in ChatMessages, i \in Images : chat_with_agent(u, m, i)
    \/ \E o \in ReadOutcomes : ChatReadStep(o)
    \/ \E o \in CoachOutcomes : ChatCoachStep(o)

-----------------------------------------------------------------------------
(* backend main POST /mcp/tools/call (backend/main.py) *)

MaxMainRuns == 2

\* The keys call_tool reads from request.arguments (lines 123-129).
ProfileKeys == {"user_id", "name", "age", "gender", "height", "weight", "health_goal"}

\* ProfileRequest bodies: a tool name, and arguments that hold every key
\* call_tool reads or lack "health_goal".
MainRequests ==
    {[name |-> n, arguments |-> [user_id |-> u, keys |-> k]] :
        n \in {"create_user_profile", "get_user_context", "update_user_weight", ""},
        u \in {"u1", "u2"},
        k \in {ProfileKeys, ProfileKeys \ {"health_goal"}}}

\* What create_user_profile does: returns a dict (with or without "error"),
\* or raises.
ProfileOutcomes ==
    {Returns(Some([error |-> None])), Returns(Some([error |-> Some("failed")])), Raises}

\* ToolResponse(content=[{"text": json.dumps(result)}]), status 200.
ToolResponse(res) == [status |-> 200, content |-> Some(res), detail |-> None]

\* HTTPException(status_code, detail) as FastAPI answers it.
HttpError(status_code, detail) ==
    [status |-> status_code, content |-> None, detail |-> Some(detail)]

\* call_tool (lines 115-141): everything happens inside try, and the except
\* branch turns every exception, the HTTPException(400) of the else branch
\* included, into HTTPException(500).
call_tool(request, tool_outcome) ==
    LET known == request.name = "create_user_profile"
        complete == ProfileKeys \subseteq request.arguments.keys
        runs == known /\ complete
    IN  /\ runs => Len(main_runs) < MaxMainRuns
        /\ main_runs' = IF runs
                          THEN Append(main_runs, [name |-> request.name,
                                                  user_id |-> request.arguments.user_id])
                          ELSE main_runs
        /\ main_reply' =
              Some([request |-> request,
                    ran |-> runs,
                    response |->
                       IF ~known THEN HttpError(500, "400: Unknown tool")
                       ELSE IF ~complete THEN HttpError(500, "KeyError")
                       ELSE IF tool_outcome.kind = "raise" THEN HttpError(500, "str(e)")
                       ELSE ToolResponse(Get(tool_outcome.value))])
        /\ OutsideMain

\* No request served yet.
MainIdle ==
    /\ main_runs = << >>
    /\ main_reply = None

MainNext ==
    \E r \in MainRequests, o \in ProfileOutcomes : call_tool(r, o)

-----------------------------------------------------------------------------
(* FoodAnalysisPipeline.reanalyze_meal, one action per awaited step *)

\* The total nutrition of the stored records below.
StoredTotal == NutritionInfo(250000, 15000, 20000, 10000, None, None)

\* The food item of the stored records below.
StoredFoods ==
    <<FoodItem("kimchi_stew", "1_serving",
               NutritionInfo(250000, 15000, 20000, 10000, None, None), 900)>>

\* Records of the diet table: two with an image, one without an image URL,
\* one with an empty image URL.
StoredMeals ==
    {MealRecord("test_user", "meal_1", 1700000000, "breakfast",
                Some("https://s3/test.jpg"), StoredFoods, StoredTotal, 2,
                Some("with friends")),
     MealRecord("test_user", "meal_2", 1700003600, "lunch",
                Some("https://s3/other.jpg"), StoredFoods, StoredTotal, 1, None),
     MealRecord("test_user", "meal_3", 1700007200, "lunch",
                None, StoredFoods, StoredTotal, 1, None),
     MealRecord("test_user", "meal_4", 1700010800, "breakfast",
                Some(""), StoredFoods, StoredTotal, 1, None)}

\* get_user_meals(user_id, limit=100) returns a list of the user's records.
MealLists ==
    {<< >>} \cup {<<m>> : m \in StoredMeals}
        \cup {<<p[1], p[2]>> : p \in {q \in StoredMeals \X StoredMeals : q[1] # q[2]}}

\* meal_id of reanalyze_meal: stored ones and an unknown one.
ReanalyzeMealIds == {"meal_1", "meal_2", "meal_3", "meal_4", "meal_9"}

\* people_count of reanalyze_meal: Optional[int], unvalidated.
ReanalyzePeopleCounts == {None, Some(0), Some(3), Some(-1)}

\* download_image returns Optional[bytes].
DownloadReturns == {Some("bytes"), Some(""), None}

\* next((meal for meal in meals if meal.meal_id == meal_id), None)
RECURSIVE FirstWithId(_, _)
FirstWithId(meals, mid) ==
    IF meals = << >> THEN None
    ELSE IF Head(meals).meal_id = mid THEN Some(Head(meals))
    ELSE FirstWithId(Tail(meals), mid)

\* people_count or existing_meal.people_count (line 156)
NewPeopleCount(people_count, existing) ==
    IF people_count # None /\ Get(people_count) # 0
      THEN Get(people_count)
      ELSE existing.people_count

\* A slip: the updated record is stamped with the time of the re-analysis.
MutUpdatedMealNewTimestamp(existing, items, people_count) ==
    MealRecord(existing.user_id, existing.meal_id, existing.timestamp + 1,
               existing.meal_type, existing.image_url, items,
               calculate_total_nutrition(items), people_count, existing.notes)

\* updated_meal = MealRecord(...) (lines 173-183)
UpdatedMeal(existing, items, people_count) ==
    MealRecord(existing.user_id, existing.meal_id, existing.timestamp,
               existing.meal_type, existing.image_url, items,
               calculate_total_nutrition(items), people_count, existing.notes)

\* reanalyze_meal up to its first await (lines 115-133).
reanalyze_meal(mid, user_id, people_count) ==
    /\ rean_pc \in {"idle", "done"}
    /\ rean_args' = Some([meal_id |-> mid, user_id |-> user_id,
                          people_count |-> people_count])
    /\ rean_pc' = "lookup"
    /\ existing_meal' = None
    /\ updated_meal' = None
    /\ rean_calls' = << >>
    /\ rean_result' = None
    /\ OutsideReanalyze

\* Lines 135-145: await get_user_meals; no record with the meal_id, or a
\* record without an image URL, ends the call with None.
LookupStep(outcome) ==
    /\ rean_pc = "lookup"
    /\ rean_calls' = Append(rean_calls, Call("get_user_meals", None, outcome))
    /\ IF outcome.kind = "raise"
         THEN /\ rean_pc' = "done"
              /\ UNCHANGED existing_meal
         ELSE LET found == FirstWithId(outcome.value, Get(rean_args).meal_id)
              IN  /\ existing_meal' = found
                  /\ rean_pc' = IF found # None /\ Truthy(Get(found).image_url)
                                  THEN "download" ELSE "done"
    /\ UNCHANGED <<rean_args, updated_meal, rean_result>>
    /\ OutsideReanalyze

\* Lines 147-154: await download_image; falsy data ends the call with None.
DownloadStep(outcome) ==
    /\ rean_pc = "download"
    /\ rean_calls' = Append(rean_calls, Call("download_image", None, outcome))
    /\ rean_pc' = IF outcome.kind = "return" /\ Truthy(outcome.value)
                    THEN "analyze" ELSE "done"
    /\ UNCHANGED <<rean_args, existing_meal, updated_meal, rean_result>>
    /\ OutsideReanalyze

\* Lines 155-183: await analyze_food_image; an empty list returns the
\* existing record, a non-empty one builds the updated record, whose
\* validation (people_count >= 1) can raise.
ReanalyzeStep(outcome) ==
    /\ rean_pc = "analyze"
    /\ rean_calls' = Append(rean_calls, Call("analyze_food_image", None, outcome))
    /\ LET new_people_count ==
               NewPeopleCount(Get(rean_args).people_count, Get(existing_meal))
       IN  IF outcome.kind = "raise"
             THEN /\ rean_pc' = "done"
                  /\ UNCHANGED <<updated_meal, rean_result>>
             ELSE IF outcome.value = << >>
               THEN /\ rean_pc' = "done"
                    /\ rean_result' = existing_meal
                    /\ UNCHANGED updated_meal
               ELSE IF MealRecordValid(new_people_count)
                 THEN /\ updated_meal' = Some(UpdatedMeal(Get(existing_meal),
                                                          outcome.value, new_people_count))
                      /\ rean_pc' = "save"
                      /\ UNCHANGED rean_result
                 ELSE /\ rean_pc' = "done"
                      /\ UNCHANGED <<updated_meal, rean_result>>
    /\ UNCHANGED <<rean_args, existing_meal>>
    /\ OutsideReanalyze

\* Lines 185-198: await save_meal_record(updated_meal); a falsy return or a
\* raise ends the call with None.
ReanalyzeSaveStep(outcome) ==
    /\ rean_pc = "save"
    /\ rean_calls' = Append(rean_calls, Call("save_meal_record", updated_meal, outcome))
    /\ rean_result' = IF outcome.kind = "return" /\ outcome.value
                        THEN updated_meal ELSE None
    /\ rean_pc' = "done"
    /\ UNCHANGED <<rean_args, existing_meal, updated_meal>>
    /\ OutsideReanalyze

\* No call in flight.
ReanalyzeIdle ==
    /\ rean_pc = "idle"
    /\ rean_args = None
    /\ existing_meal = None
    /\ updated_meal = None
    /\ rean_calls = << >>
    /\ rean_result = None

ReanalyzeNext ==
    \/ \E m \in ReanalyzeMealIds, u \in {"test_user"}, n \in ReanalyzePeopleCounts :
           reanalyze_meal(m, u, n)
    \/ \E o \in {Returns(v) : v \in MealLists} \cup {Raises} : LookupStep(o)
    \/ \E o \in {Returns(v) : v \in DownloadReturns} \cup {Raises} : DownloadStep(o)
    \/ \E o \in {Returns(v) : v \in AnalyzeReturns} \cup {Raises} : ReanalyzeStep(o)
    \/ \E o \in {Returns(v) : v \in BOOLEAN} \cup {Raises} : ReanalyzeSaveStep(o)

-----------------------------------------------------------------------------
(* FoodAnalysisPipeline.batch_process_images, one action per iteration *)

MaxBatch == 3

\* The keys the loop reads with image_info[...] (lines 224-226).
RequiredKeys == {"image_data", "filename", "meal_type"}

\* Image descriptors: one with the required keys only, one with people_count
\* and notes as well, one with a people_count that fails MealRecord's
\* validation, one without "meal_type".
Descriptors ==
    {[keys |-> RequiredKeys, filename |-> "a.jpg", meal_type |-> "breakfast",
      people_count |-> None, notes |-> None],
     [keys |-> RequiredKeys \cup {"people_count", "notes"}, filename |-> "b.jpg",
      meal_type |-> "lunch", people_count |-> Some(2), notes |-> Some("office")],
     [keys |-> RequiredKeys \cup {"people_count"}, filename |-> "c.jpg",
      meal_type |-> "lunch", people_count |-> Some(0), notes |-> None],
     [keys |-> {"image_data", "filename"}, filename |-> "d.jpg",
      meal_type |-> "", people_count |-> None, notes |-> None]}

\* The keyword arguments of the process_meal_image call for a descriptor
\* (lines 222-229): people_count defaults to 1, notes to None.
MealImageArgs(user_id, image_info) ==
    [user_id |-> user_id, filename |-> image_info.filename,
     meal_type |-> image_info.meal_type,
     people_count |-> IF image_info.people_count = None
                        THEN 1 ELSE Get(image_info.people_count),
     notes |-> image_info.notes]

\* The record process_meal_image returns for these arguments when it succeeds.
MealImageRecord(args) ==
    MealRecord(args.user_id, "meal_1", 1700000000, args.meal_type,
               Some("https://s3/test.jpg"), StoredFoods, StoredTotal,
               args.people_count, args.notes)

\* What process_meal_image returns for these arguments: the record or None
\* (it catches every exception itself), and None only when the record would
\* fail its validation.
MealImageReturns(args) ==
    IF MealRecordValid(args.people_count)
      THEN {Some(MealImageRecord(args)), None}
      ELSE {None}

\* batch_process_images up to the loop (lines 200-219).
batch_process_images(user_id, image_batch) ==
    /\ batch_pc \in {"idle", "done"}
    /\ batch_args' = Some([user_id |-> user_id, image_batch |-> image_batch])
    /\ results' = << >>
    /\ batch_calls' = << >>
    /\ IF image_batch = << >>
         THEN /\ batch_pc' = "done"
              /\ batch_reply' = Some(<< >>)
         ELSE /\ batch_pc' = "loop"
              /\ batch_reply' = None
    /\ OutsideBatch

\* A slip: the loop stops at the first descriptor whose processing failed.
MutBatchStepStopsAtFailure(returned) ==
    /\ batch_pc = "loop"
    /\ LET image_batch == Get(batch_args).image_batch
           image_info == image_batch[Len(results) + 1]
           args == MealImageArgs(Get(batch_args).user_id, image_info)
       IN  IF ~(RequiredKeys \subseteq image_info.keys)
             THEN /\ batch_pc' = "done"
                  /\ batch_reply' = Some(<< >>)
                  /\ UNCHANGED <<results, batch_calls>>
             ELSE /\ returned \in MealImageReturns(args)
                  /\ batch_calls' = Append(batch_calls, [args |-> args, returned |-> returned])
                  /\ results' = Append(results, returned)
                  /\ IF Len(results) + 1 = Len(image_batch) \/ returned = None
                       THEN /\ batch_pc' = "done"
                            /\ batch_reply' = Some(Append(results, returned))
                       ELSE /\ batch_pc' = "loop"
                            /\ UNCHANGED batch_reply
    /\ UNCHANGED batch_args
    /\ OutsideBatch

\* One iteration of the loop (lines 219-238), and the return after the last
\* one: a descriptor without a required key raises KeyError, which the
\* except branch (lines 240-242) turns into the empty list.
BatchStep(returned) ==
    /\ batch_pc = "loop"
    /\ LET image_batch == Get(batch_args).image_batch
           image_info == image_batch[Len(results) + 1]
           args == MealImageArgs(Get(batch_args).user_id, image_info)
       IN  IF ~(RequiredKeys \subseteq image_info.keys)
             THEN /\ batch_pc' = "done"
                  /\ batch_reply' = Some(<< >>)
                  /\ UNCHANGED <<results, batch_calls>>
             ELSE /\ returned \in MealImageReturns(args)
                  /\ batch_calls' = Append(batch_calls, [args |-> args, returned |-> returned])
                  /\ results' = Append(results, returned)
                  /\ IF Len(results) + 1 = Len(image_batch)
                       THEN /\ batch_pc' = "done"
                            /\ batch_reply' = Some(Append(results, returned))
                       ELSE /\ batch_pc' = "loop"
                            /\ UNCHANGED batch_reply
    /\ UNCHANGED batch_args
    /\ OutsideBatch

\* No call in flight.
BatchIdle ==
    /\ batch_pc = "idle"
    /\ batch_args = None
    /\ results = << >>
    /\ batch_calls = << >>
    /\ batch_reply = None

\* Every result process_meal_image can return for some descriptor.
AllMealImageReturns ==
    UNION {MealImageReturns(MealImageArgs(u, d)) : u \in UserIds, d \in Descriptors}

BatchNext ==
    \/ \E u \in UserIds, b \in SeqUpTo(Descriptors, MaxBatch) : batch_process_images(u, b)
    \/ \E r \in AllMealImageReturns : BatchStep(r)

-----------------------------------------------------------------------------
(* utils/helpers.py and the target-calorie computation of each call site *)

\* Amounts of kcal are counted in thousandths, like the nutrition amounts; a
\* product that needs more digits is a pair <<whole, frac>> with frac counted
\* in units of 1/Frac.
Frac == 10000000

\* A thousandths amount as such a pair.
DecFromThousandths(t) == <<t \div 1000, (t % 1000) * (Frac \div 1000)>>

\* The pair times a small integer.
DecMul(x, p) == <<x[1] * p + (x[2] * p) \div Frac, (x[2] * p) % Frac>>

\* The pair divided by a small integer.
DecDiv(x, q) == <<x[1] \div q, ((x[1] % q) * Frac + x[2]) \div q>>

\* The pair times the float literal written as the ratio <<p, q>>.
DecTimes(x, ratio) == DecDiv(DecMul(x, ratio[1]), ratio[2])

\* str.lower() on the words that occur as gender and activity level.
LowerWord(w) ==
    CASE w = "Male" -> "male"
      [] w = "MODERATE" -> "moderate"
      [] w = "SEDENTARY" -> "sedentary"
      [] w = "VERY_ACTIVE" -> "very_active"
      [] w = "LIGHT" -> "light"
      [] OTHER -> w

\* The Harris-Benedict sum before rounding, in thousandths; weight in kg,
\* height in cm and age in years are whole numbers here.
BmrExact(weight, height, age, gender) ==
    IF LowerWord(gender) = "male"
      THEN 88362 + 13397 * weight + 4799 * height - 5677 * age
      ELSE 447593 + 9247 * weight + 3098 * height - 4330 * age

\* helpers.calculate_bmr: round(bmr, 2)
calculate_bmr(weight, height, age, gender) ==
    Round2(BmrExact(weight, height, age, gender))

\* activity_multipliers.get(activity_level.lower(), 1.55) of calculate_tdee,
\* in thousandths.
ActivityMultiplier(activity_level) ==
    CASE LowerWord(activity_level) = "low" -> 1200
      [] LowerWord(activity_level) = "moderate" -> 1550
      [] LowerWord(activity_level) = "high" -> 1900
      [] OTHER -> 1550

\* helpers.calculate_tdee: round(bmr * multiplier, 2); bmr is a multiple of a
\* hundredth, the product is counted in 1/100000 and rounded half-even to a
\* hundredth.
calculate_tdee(bmr, activity_level) ==
    LET product == (bmr \div 10) * ActivityMultiplier(activity_level)
        q == product \div 1000
        r == product % 1000
    IN  IF r < 500 THEN 10 * q
        ELSE IF r > 500 THEN 10 * (q + 1)
        ELSE IF q % 2 = 0 THEN 10 * q ELSE 10 * (q + 1)

\* tdee * 0.8 for weight_loss, tdee * 1.1 for muscle_gain, tdee otherwise;
\* tdee is a multiple of a hundredth, so the product is whole thousandths.
GoalAdjusted(tdee, health_goal) ==
    IF health_goal = "weight_loss" THEN (tdee \div 10) * 8
    ELSE IF health_goal = "muscle_gain" THEN (tdee \div 10) * 11
    ELSE tdee

\* update_user_goals (agents/tools/user_tools.py lines 129-147).
UserToolsTarget(p) ==
    DecFromThousandths(
        GoalAdjusted(calculate_tdee(calculate_bmr(p.weight, p.height, p.age, p.gender),
                                    p.activity_level),
                     p.health_goal))

\* analyze_eating_pattern / generate_meal_plan (coaching_tools.py lines
\* 116-128 and 190-202).
CoachingToolsTarget(p) ==
    LET bmr == calculate_bmr(p.weight, p.height, p.age, p.gender)
        daily_target == calculate_tdee(bmr, p.activity_level)
    IN  DecFromThousandths(GoalAdjusted(daily_target, p.health_goal))

\* CoachingPipeline._calculate_target_calories (lines 273-290).
CoachingPipelineTarget(p) ==
    LET bmr == calculate_bmr(p.weight, p.height, p.age, p.gender)
        tdee == calculate_tdee(bmr, p.activity_level)
    IN  DecFromThousandths(GoalAdjusted(tdee, p.health_goal))

\* activity_multipliers.get(activity_level, 1.55) of create_user_profile in
\* user_rag_tools.py (lines 44-52): 1.2, 1.375, 1.55, 1.725, 1.9 as ratios.
RagActivityMultiplier(activity_level) ==
    CASE activity_level = "SEDENTARY" -> <<6, 5>>
      [] activity_level = "LIGHT" -> <<11, 8>>
      [] activity_level = "MODERATE" -> <<31, 20>>
      [] activity_level = "ACTIVE" -> <<69, 40>>
      [] activity_level = "VERY_ACTIVE" -> <<19, 10>>
      [] OTHER -> <<31, 20>>

\* create_user_profile of user_rag_tools.py (lines 37-61): the unrounded
\* Harris-Benedict sum times the multiplier times 0.8, 1.1 or nothing.
RagToolsTarget(p) ==
    LET bmr == DecFromThousandths(BmrExact(p.weight, p.height, p.age, p.gender))
        tdee == DecTimes(bmr, RagActivityMultiplier(p.activity_level))
    IN  IF p.health_goal = "weight_loss" THEN DecTimes(tdee, <<4, 5>>)
        ELSE IF p.health_goal = "muscle_gain" THEN DecTimes(tdee, <<11, 10>>)
        ELSE tdee

-----------------------------------------------------------------------------
(* The user profile tools (agents/tools/user_tools.py, backend/agents/tools/user_rag_tools.py) *)

MaxProfileOps == 2

\* HealthGoal's values.
HealthGoals == {"weight_loss", "muscle_gain", "body_profile", "health_maintenance"}

\* ExerciseType's values.
ExerciseTypes == {"gym", "yoga", "running", "swimming", "cycling", "pilates"}

ProfileUserIds == {"u1", "u2"}

\* UserProfile as the tools build and store it.
UserProfile(user_id, age, gender, height, weight, health_goal, preferred_exercises, activity_level, dietary_restrictions, target_calories, updated_at) ==
    [user_id |-> user_id, age |-> age, gender |-> gender, height |-> height,
     weight |-> weight, health_goal |-> health_goal,
     preferred_exercises |-> preferred_exercises, activity_level |-> activity_level,
     dietary_restrictions |-> dietary_restrictions,
     target_calories |-> target_calories, updated_at |-> updated_at]

\* new_goals of update_user_goals: a dict, a key that is absent being None.
NewGoals ==
    [health_goal : {None, Some("muscle_gain"), Some("lose_weight")},
     weight : {None, Some(80)},
     activity_level : {None, Some("high")},
     preferred_exercises : {None, Some(<<"yoga">>), Some(<<"yoga", "boxing">>)},
     dietary_restrictions : {None, Some(<<"vegan">>)}]

\* The users table after a successful put_item.
Stored(table, profile) ==
    [u \in DOMAIN table \cup {profile.user_id} |->
        IF u = profile.user_id THEN profile ELSE table[u]]

\* What a tool call returned, with its arguments.
ToolReply(tool, user_id, new_goals, new_weight, error, save_called) ==
    [seq |-> profile_now + 1, tool |-> tool, user_id |-> user_id,
     new_goals |-> new_goals, new_weight |-> new_weight,
     error |-> error, save_called |-> save_called]

\* create_user_profile of user_rag_tools.py (lines 11-97): the target is
\* computed, HealthGoal(health_goal) raises on an unknown goal, the profile is
\* saved.
rag_create_user_profile(user_id, age, gender, height, weight, health_goal, activity_level, save_ok) ==
    LET inputs == [weight |-> weight, height |-> height, age |-> age,
                   gender |-> gender, activity_level |-> activity_level,
                   health_goal |-> health_goal]
        user_profile == UserProfile(user_id, age, gender, height, weight, health_goal,
                                    << >>, activity_level, << >>,
                                    Some(RagToolsTarget(inputs)), profile_now + 1)
        valid == health_goal \in HealthGoals
    IN  /\ profile_now < MaxProfileOps
        /\ profile_now' = profile_now + 1
        /\ profile_saves' = IF valid
                              THEN Append(profile_saves, [profile |-> user_profile,
                                                          ok |-> save_ok])
                              ELSE profile_saves
        /\ profiles' = IF valid /\ save_ok THEN Stored(profiles, user_profile)
                       ELSE profiles
        /\ tool_reply' =
              Some(ToolReply("create_user_profile", user_id, None, None,
                             IF ~valid THEN Some("profile creation error")
                             ELSE IF ~save_ok THEN Some("profile save failed")
                             ELSE None,
                             valid))
        /\ OutsideProfiles

\* Every ExerciseType(ex) of the list succeeds.
ExercisesValid(exercises) ==
    \A i \in 1..Len(exercises) : exercises[i] \in ExerciseTypes

\* The profile update_user_goals holds when it reaches the save (lines
\* 98-151): each key of new_goals written to its field, the target
\* recomputed when health_goal, weight or activity_level is among the keys,
\* updated_at set.
GoalsApplied(user_profile, new_goals, t) ==
    LET changed ==
            [user_profile EXCEPT
                !.health_goal = IF new_goals.health_goal # None
                                  THEN Get(new_goals.health_goal) ELSE @,
                !.weight = IF new_goals.weight # None THEN Get(new_goals.weight) ELSE @,
                !.activity_level = IF new_goals.activity_level # None
                                     THEN Get(new_goals.activity_level) ELSE @,
                !.preferred_exercises = IF new_goals.preferred_exercises # None
                                          THEN Get(new_goals.preferred_exercises) ELSE @,
                !.dietary_restrictions = IF new_goals.dietary_restrictions # None
                                           THEN Get(new_goals.dietary_restrictions) ELSE @]
        recompute == \/ new_goals.health_goal # None
                     \/ new_goals.weight # None
                     \/ new_goals.activity_level # None
    IN  [changed EXCEPT
            !.target_calories = IF recompute THEN Some(UserToolsTarget(changed)) ELSE @,
            !.updated_at = t]

\* A slip: the enum checks come after the save.
MutUpdateGoalsSavesFirst(user_id, new_goals, get_ok, save_ok) ==
    LET found == get_ok /\ user_id \in DOMAIN profiles
        goal_valid == new_goals.health_goal = None
                        \/ Get(new_goals.health_goal) \in HealthGoals
        exercises_valid == new_goals.preferred_exercises = None
                             \/ ExercisesValid(Get(new_goals.preferred_exercises))
        updated == GoalsApplied(profiles[user_id], new_goals, profile_now + 1)
    IN  /\ profile_now < MaxProfileOps
        /\ profile_now' = profile_now + 1
        /\ profile_saves' = IF found
                              THEN Append(profile_saves, [profile |-> updated, ok |-> save_ok])
                              ELSE profile_saves
        /\ profiles' = IF found /\ save_ok THEN Stored(profiles, updated) ELSE profiles
        /\ tool_reply' =
              Some(ToolReply("update_user_goals", user_id, Some(new_goals), None,
                             IF ~found THEN Some("user profile not found")
                             ELSE IF ~goal_valid THEN Some("invalid health goal")
                             ELSE IF ~exercises_valid THEN Some("invalid exercise type")
                             ELSE IF ~save_ok THEN Some("goal update failed")
                             ELSE None,
                             found))
        /\ OutsideProfiles

\* update_user_goals (agents/tools/user_tools.py lines 77-167): an unknown
\* health goal or exercise type returns the error dict before the save.
update_user_goals(user_id, new_goals, get_ok, save_ok) ==
    LET found == get_ok /\ user_id \in DOMAIN profiles
        goal_valid == new_goals.health_goal = None
                        \/ Get(new_goals.health_goal) \in HealthGoals
        exercises_valid == new_goals.preferred_exercises = None
                             \/ ExercisesValid(Get(new_goals.preferred_exercises))
        saves == found /\ goal_valid /\ exercises_valid
        updated == GoalsApplied(profiles[user_id], new_goals, profile_now + 1)
    IN  /\ profile_now < MaxProfileOps
        /\ profile_now' = profile_now + 1
        /\ profile_saves' = IF saves
                              THEN Append(profile_saves, [profile |-> updated, ok |-> save_ok])
                              ELSE profile_saves
        /\ profiles' = IF saves /\ save_ok THEN Stored(profiles, updated) ELSE profiles
        /\ tool_reply' =
              Some(ToolReply("update_user_goals", user_id, Some(new_goals), None,
                             IF ~found THEN Some("user profile not found")
                             ELSE IF ~goal_valid THEN Some("invalid health goal")
                             ELSE IF ~exercises_valid THEN Some("invalid exercise type")
                             ELSE IF ~save_ok THEN Some("goal update failed")
                             ELSE None,
                             saves))
        /\ OutsideProfiles

\* update_user_weight (user_rag_tools.py lines 155-190): weight and
\* updated_at are set and the profile is saved; target_calories is not
\* touched.
update_user_weight(user_id, new_weight, get_ok, save_ok) ==
    LET found == get_ok /\ user_id \in DOMAIN profiles
        updated == [profiles[user_id] EXCEPT !.weight = new_weight,
                                             !.updated_at = profile_now + 1]
    IN  /\ profile_now < MaxProfileOps
        /\ profile_now' = profile_now + 1
        /\ profile_saves' = IF found
                              THEN Append(profile_saves, [profile |-> updated, ok |-> save_ok])
                              ELSE profile_saves
        /\ profiles' = IF found /\ save_ok THEN Stored(profiles, updated) ELSE profiles
        /\ tool_reply' =
              Some(ToolReply("update_user_weight", user_id, None, Some(new_weight),
                             IF ~found THEN Some("user not found")
                             ELSE IF ~save_ok THEN Some("weight update failed")
                             ELSE None,
                             found))
        /\ OutsideProfiles

\* An empty users table.
ProfilesIdle ==
    /\ profiles = << >>
    /\ profile_saves = << >>
    /\ profile_now = 0
    /\ tool_reply = None

ProfilesNext ==
    \/ \E u \in ProfileUserIds, g \in {"male", "female"}, w \in {70},
          h \in {"weight_loss", "health_maintenance", "lose_weight"},
          a \in {"MODERATE", "SEDENTARY", "low"}, ok \in BOOLEAN :
           rag_create_user_profile(u, 30, g, 175, w, h, a, ok)
    \/ \E u \in ProfileUserIds, n \in NewGoals, got \in BOOLEAN, ok \in BOOLEAN :
           update_user_goals(u, n, got, ok)
    \/ \E u \in ProfileUserIds, w \in {70, 80}, got \in BOOLEAN, ok \in BOOLEAN :
           update_user_weight(u, w, got, ok)

-----------------------------------------------------------------------------
(* The target-calorie computations applied to every bounded profile *)

\* weight, height, age, gender, activity_level and health_goal of a profile.
CalorieInputs ==
    [weight : {60, 70, 80}, height : {165, 175}, age : {30, 45},
     gender : {"male", "Male", "female"},
     activity_level : {"low", "moderate", "high", "MODERATE", "SEDENTARY", "LIGHT",
                       "ACTIVE", "VERY_ACTIVE"},
     health_goal : HealthGoals]

ApplyTargetCalories ==
    /\ cal_targets = None
    /\ cal_targets' = Some([user_tools |-> UserToolsTarget(cal_input),
                            coaching_tools |-> CoachingToolsTarget(cal_input),
                            coaching_pipeline |-> CoachingPipelineTarget(cal_input),
                            rag_tools |-> RagToolsTarget(cal_input)])
    /\ UNCHANGED cal_input
    /\ OutsideCalories

\* Nothing computed.
CaloriesIdle ==
    /\ cal_input = [weight |-> 70, height |-> 175, age |-> 30, gender |-> "male",
                    activity_level |-> "moderate", health_goal |-> "health_maintenance"]
    /\ cal_targets = None

CaloriesNext == ApplyTargetCalories

-----------------------------------------------------------------------------
(* The agent-provisioning scripts (backend/create_bedrock_agent.py,           *)
(* backend/create_real_agent.py, backend/prepare_agent.py)                    *)

\* max_wait of create_real_agent.py and prepare_agent.py, in seconds.
MaxWait == 300

\* The argument of time.sleep in the wait loops, in seconds.
PollInterval == 10

\* The polls followed for the script whose loop has no bound of its own.
MaxPollsFollowed == 32

\* The three scripts.
Scripts == {"create_bedrock_agent", "create_real_agent", "prepare_agent"}

\* The scripts whose loop is `while wait_time < max_wait`; the loop of
\* create_bedrock_agent.py is `while True`.
BoundedScripts == {"create_real_agent", "prepare_agent"}

\* agentStatus values of bedrock-agent get_agent.
AgentStatuses == {"CREATING", "NOT_PREPARED", "PREPARING", "PREPARED", "FAILED"}

\* What a get_agent call does: returns a status, or raises.
GetAgentOutcomes == AgentStatuses \cup {"raise"}

\* What the calls before the wait loop do.
StartOutcomes == {"ok", "raise"}

\* What create_agent_alias does: returns an alias, raises "already exists",
\* raises anything else.
AliasOutcomes == {"ok", "already_exists", "raise"}

\* What writing the config file does.
WriteOutcomes == {"ok", "raise"}

\* No script has run.
ProvisionIdle ==
    /\ prov_pc = "idle"
    /\ prov_script = None
    /\ prov_polls = 0
    /\ prov_wait_time = 0
    /\ prov_status = None
    /\ prov_calls = << >>
    /\ prov_result = None

\* A script from its start to its wait loop. The two creating scripts call
\* create_agent and prepare_agent (create_bedrock_agent.py 43-62,
\* create_real_agent.py 105-122); prepare_agent.py reads the status of the
\* existing agent and calls prepare_agent when it is NOT_PREPARED (23-29).
\* An exception ends the run in the except branch, which returns None.
StartScript(script, outcome, status) ==
    /\ prov_pc = "idle"
    /\ prov_script' = Some(script)
    /\ prov_polls' = 0
    /\ prov_wait_time' = 0
    /\ IF script = "prepare_agent"
         THEN /\ prov_status' = IF outcome = "ok" THEN Some(status) ELSE None
              /\ prov_calls' =
                   IF outcome = "ok" /\ status = "NOT_PREPARED"
                     THEN <<"get_agent", "prepare_agent">>
                     ELSE <<"get_agent">>
         ELSE /\ prov_status' = None
              /\ prov_calls' =
                   IF outcome = "ok" THEN <<"create_agent", "prepare_agent">>
                                     ELSE <<"create_agent">>
    /\ IF outcome = "ok"
         THEN prov_pc' = "poll" /\ prov_result' = None
         ELSE prov_pc' = "done" /\ prov_result' = Some("None")
    /\ OutsideProvision

\* A slip: the loop of the bounded scripts also runs `while True`.
MutPollNeverTimesOut(outcome) ==
    /\ prov_pc = "poll"
    /\ prov_polls < MaxPollsFollowed
    /\ prov_polls' = prov_polls + 1
    /\ prov_status' = IF outcome = "raise" THEN prov_status ELSE Some(outcome)
    /\ IF outcome = "PREPARED"
         THEN /\ prov_pc' = "alias"
              /\ UNCHANGED <<prov_wait_time, prov_result>>
         ELSE IF outcome \in {"FAILED", "raise"}
           THEN /\ prov_pc' = "done"
                /\ prov_result' = Some("None")
                /\ UNCHANGED prov_wait_time
           ELSE /\ prov_wait_time' = prov_wait_time + PollInterval
                /\ prov_pc' = "poll"
                /\ UNCHANGED prov_result
    /\ UNCHANGED <<prov_script, prov_calls>>
    /\ OutsideProvision

\* One turn of the wait loop (create_bedrock_agent.py 65-77,
\* create_real_agent.py 125-142, prepare_agent.py 32-52): get_agent, then
\* break on PREPARED, return None on FAILED, and otherwise sleep and go
\* round; the bounded scripts add the sleep to wait_time and return None
\* once wait_time has reached max_wait.
Poll(outcome) ==
    /\ prov_pc = "poll"
    /\ prov_polls < MaxPollsFollowed
    /\ prov_polls' = prov_polls + 1
    /\ prov_status' = IF outcome = "raise" THEN prov_status ELSE Some(outcome)
    /\ IF outcome = "PREPARED"
         THEN /\ prov_pc' = "alias"
              /\ UNCHANGED <<prov_wait_time, prov_result>>
         ELSE IF outcome \in {"FAILED", "raise"}
           THEN /\ prov_pc' = "done"
                /\ prov_result' = Some("None")
                /\ UNCHANGED prov_wait_time
           ELSE /\ prov_wait_time' = prov_wait_time + PollInterval
                /\ IF Get(prov_script) \in BoundedScripts
                        /\ prov_wait_time + PollInterval >= MaxWait
                     THEN prov_pc' = "done" /\ prov_result' = Some("None")
                     ELSE prov_pc' = "poll" /\ UNCHANGED prov_result
    /\ UNCHANGED <<prov_script, prov_calls>>
    /\ OutsideProvision

\* create_agent_alias (create_bedrock_agent.py 80-87, create_real_agent.py
\* 145-153, prepare_agent.py 55-71). Only prepare_agent.py survives an
\* "already exists" error, by taking the first alias of list_agent_aliases.
CreateAlias(outcome) ==
    /\ prov_pc = "alias"
    /\ prov_calls' =
         IF outcome = "already_exists" /\ Get(prov_script) = "prepare_agent"
           THEN prov_calls \o <<"create_agent_alias", "list_agent_aliases">>
           ELSE Append(prov_calls, "create_agent_alias")
    /\ IF outcome = "ok"
          \/ (outcome = "already_exists" /\ Get(prov_script) = "prepare_agent")
         THEN prov_pc' = "config" /\ UNCHANGED prov_result
         ELSE prov_pc' = "done" /\ prov_result' = Some("None")
    /\ UNCHANGED <<prov_script, prov_polls, prov_wait_time, prov_status>>
    /\ OutsideProvision

\* Writing bedrock_agent_config.json and returning (create_bedrock_agent.py
\* 90-110, create_real_agent.py 156-180, prepare_agent.py 74-96).
WriteConfig(outcome) ==
    /\ prov_pc = "config"
    /\ prov_calls' = Append(prov_calls, "open_config_for_writing")
    /\ prov_pc' = "done"
    /\ prov_result' = IF outcome = "ok" THEN Some("config") ELSE Some("None")
    /\ UNCHANGED <<prov_script, prov_polls, prov_wait_time, prov_status>>
    /\ OutsideProvision

ProvisionNext ==
    \/ \E s \in Scripts, o \in StartOutcomes, st \in AgentStatuses :
           StartScript(s, o, st)
    \/ \E o \in GetAgentOutcomes : Poll(o)
    \/ \E o \in AliasOutcomes : CreateAlias(o)
    \/ \E o \in WriteOutcomes : WriteConfig(o)

-----------------------------------------------------------------------------
(* DynamoDBService.save_user_profile and get_user_profile                     *)
(* (backend/src/services/dynamodb_service.py)                                 *)

\* The longest list of a profile that is followed.
MaxListLen == 2

\* Values of ExerciseType (data_models.py 20-27) that are followed.
ExerciseValues == {"gym", "yoga"}

\* Entries of dietary_restrictions, a List[str] that takes any string.
RestrictionValues == {"vegan", "none"}

\* The lists over S of at most MaxListLen entries.
ListsOf(S) == SeqUpTo(S, MaxListLen)

\* The entries of a list, as a set.
Elements(list) == {list[i] : i \in 1..Len(list)}

\* The orders in which the entries of a string set can come back.
OrdersOf(S) == {order \in [1..Cardinality(S) -> S] : Elements(order) = S}

\* {'SS': [...]} if the list is truthy else {'SS': ['none']} (lines 48-51):
\* the string set the item holds for a list.
ToStringSet(list) == IF list = << >> THEN {"none"} ELSE Elements(list)

\* [x for x in item[...]['SS'] if x != 'none'] (lines 371-374), for the set's
\* entries in the order the store returns them.
FromStringSet(order) == SelectSeq(order, LAMBDA x : x # "none")

\* A profile was built and nothing stored yet.
StoreBuilt ==
    /\ ddb_pc = "built"
    /\ ddb_profile \in [preferred_exercises : ListsOf(ExerciseValues),
                        disliked_exercises : ListsOf(ExerciseValues),
                        dietary_restrictions : ListsOf(RestrictionValues)]
    /\ ddb_item = None
    /\ ddb_read = None

\* The profile store is not in use.
StoreIdle ==
    /\ ddb_pc = "idle"
    /\ ddb_profile = None
    /\ ddb_item = None
    /\ ddb_read = None

\* save_user_profile (lines 30-70): True after put_item, False when put_item
\* raises.
save_user_profile(put_ok) ==
    /\ ddb_pc = "built"
    /\ IF put_ok
         THEN /\ ddb_item' =
                   Some([preferred_exercises |-> ToStringSet(ddb_profile.preferred_exercises),
                         disliked_exercises |-> ToStringSet(ddb_profile.disliked_exercises),
                         dietary_restrictions |-> ToStringSet(ddb_profile.dietary_restrictions)])
              /\ ddb_pc' = "saved"
         ELSE /\ ddb_item' = None
              /\ ddb_pc' = "failed"
    /\ UNCHANGED <<ddb_profile, ddb_read>>
    /\ OutsideStore

\* A slip: the read keeps the sentinel instead of filtering it out.
MutGetKeepsSentinel ==
    /\ ddb_pc = "saved"
    /\ \E p \in OrdersOf(Get(ddb_item).preferred_exercises),
          d \in OrdersOf(Get(ddb_item).disliked_exercises),
          r \in OrdersOf(Get(ddb_item).dietary_restrictions) :
          ddb_read' = Some([preferred_exercises |-> p, disliked_exercises |-> d,
                            dietary_restrictions |-> r])
    /\ ddb_pc' = "read"
    /\ UNCHANGED <<ddb_profile, ddb_item>>
    /\ OutsideStore

\* get_user_profile of the saved user (lines 72-100) with
\* _dynamodb_item_to_user_profile (lines 361-380); p, d, r are the orders in
\* which the store returns the entries of the three string sets.
get_user_profile ==
    /\ ddb_pc = "saved"
    /\ \E p \in OrdersOf(Get(ddb_item).preferred_exercises),
          d \in OrdersOf(Get(ddb_item).disliked_exercises),
          r \in OrdersOf(Get(ddb_item).dietary_restrictions) :
          ddb_read' = Some([preferred_exercises |-> FromStringSet(p),
                            disliked_exercises |-> FromStringSet(d),
                            dietary_restrictions |-> FromStringSet(r)])
    /\ ddb_pc' = "read"
    /\ UNCHANGED <<ddb_profile, ddb_item>>
    /\ OutsideStore

StoreNext ==
    \/ \E put_ok \in BOOLEAN : save_user_profile(put_ok)
    \/ get_user_profile

-----------------------------------------------------------------------------
(* ConversationMemory._extract_topics and _extract_topics_fallback            *)
(* (agents/memory/conversation_memory.py)                                     *)

\* The longest conversations argument that is followed.
MaxConversations == 2

\* conversations[-10:] takes the 10 most recent entries (line 208).
RecentWindow == 10

\* topics[:5] and unique_topics[:5].
MaxTopics == 5

\* The topics of _extract_topics_fallback, in the order of its tests: sikdan,
\* undong, chejunggwalli, seukejul, geongang, seuteureseu.
FallbackTopics == <<"diet", "exercise", "weight", "schedule", "health", "stress">>

\* A user message, by what the two functions read of it: whether it is blank
\* after strip(), and the topics one of whose keywords it contains.
UserMessage(blank, keywords) == [blank |-> blank, keywords |-> keywords]

UserMessages ==
    {UserMessage(TRUE, {}),
     UserMessage(FALSE, {}),
     UserMessage(FALSE, {"diet"}),
     UserMessage(FALSE, {"exercise", "stress"}),
     UserMessage(FALSE, {"diet", "exercise", "weight", "schedule", "health", "stress"})}

\* A reply text, as its characters in classes: "[" and "]", "," and "nl" (a
\* newline), "w" (other text, not valid JSON), "1" (a JSON number), and any
\* other string standing for the JSON string literal of that name.
ReplyTexts ==
    {<< >>,
     <<"w">>,
     <<"[", "]">>,
     <<"w", "[", "]", "w">>,
     <<"[", "diet", "]">>,
     <<"w", "[", "diet", ",", "sleep", "]", "w">>,
     <<"[", "diet", ",", "exercise", ",", "weight", ",", "health", ",", "sleep", ",", "etc", "]">>,
     <<"[", "w", "]">>,
     <<"[", "diet", ",", "]">>,
     <<"[", "nl", "diet", "nl", "]">>,
     <<"[", "[", "diet", "]", ",", "sleep", "]">>,
     <<"[", "1", "]", "w", "[", "diet", "]">>,
     <<"[", "nl", "w", "[", "sleep", "]">>}

\* How process_natural_language ends for _extract_topics: a dict with a
\* "response" text, a dict without "response", or a raise (the import of
\* bedrock_service included).
LlmOutcomes ==
    {[kind |-> "dict", response |-> Some(t)] : t \in ReplyTexts}
      \cup {[kind |-> "dict", response |-> None], [kind |-> "raise", response |-> None]}

\* re.search(r'\[.*?\]', text): the leftmost "[" that is followed by a "]"
\* with no newline between them, up to the first such "]"; None without one.
ArrayMatch(text) ==
    LET Closes(i) == {j \in (i + 1)..Len(text) :
                         /\ text[j] = "]"
                         /\ \A k \in (i + 1)..(j - 1) : text[k] # "nl"}
        starts == {i \in 1..Len(text) : text[i] = "[" /\ Closes(i) # {}}
    IN  IF starts = {} THEN None
        ELSE LET i == CHOOSE s \in starts : \A o \in starts : s <= o
                 j == CHOOSE c \in Closes(i) : \A o \in Closes(i) : c <= o
             IN  Some(SubSeq(text, i, j))

\* json.loads of a matched span "[ ... ]": the list of its values when the
\* inside is empty or literals separated by commas, None when it raises.
JsonLoads(span) ==
    LET inside == SubSeq(span, 2, Len(span) - 1)
        literal(c) == c \notin {"[", "]", ",", "nl", "w"}
        valid == \/ inside = << >>
                 \/ /\ Len(inside) % 2 = 1
                    /\ \A k \in 1..Len(inside) :
                          IF k % 2 = 1 THEN literal(inside[k]) ELSE inside[k] = ","
    IN  IF valid THEN Some([k \in 1..((Len(inside) + 1) \div 2) |-> inside[2 * k - 1]])
        ELSE None

\* s[:n]
Head5(s) == SubSeq(s, 1, IF Len(s) < MaxTopics THEN Len(s) ELSE MaxTopics)

\* The topics the tests of _extract_topics_fallback append for a list of
\* messages (lines 266-279), as a set: what set(topics) holds.
KeywordTopics(convs) ==
    UNION {convs[i].keywords : i \in 1..Len(convs)}

\* What _extract_topics_fallback can return (lines 282-283): the first 5 of
\* list(set(topics)), whose order is the set's.
FallbackReturns(convs) ==
    LET unique == KeywordTopics(convs)
        n == Cardinality(unique)
        kept == IF n < MaxTopics THEN n ELSE MaxTopics
    IN  {s \in [1..kept -> unique] : \A a, b \in 1..kept : a # b => s[a] # s[b]}

\* What a call returned, and from which of its return statements.
TopicsReturn(source, topics) == [source |-> source, topics |-> topics]

\* conversation_text.strip() is empty (lines 207-212): every one of the
\* recent messages is blank.
BlankText(convs) ==
    LET recent == SliceFromMinus(convs, RecentWindow)
    IN  \A i \in 1..Len(recent) : recent[i].blank

\* No call made.
TopicsIdle ==
    /\ top_pc = "idle"
    /\ top_conversations = << >>
    /\ top_llm = None
    /\ top_result = None

\* A call about to be made with some conversations.
TopicsReady ==
    /\ top_pc = "ready"
    /\ top_conversations \in SeqUpTo(UserMessages, MaxConversations)
    /\ top_llm = None
    /\ top_result = None

\* _extract_topics up to its await (lines 203-223): [] for a blank text.
extract_topics ==
    /\ top_pc = "ready"
    /\ IF BlankText(top_conversations)
         THEN /\ top_pc' = "done"
              /\ top_result' = Some(TopicsReturn("blank", << >>))
         ELSE /\ top_pc' = "llm"
              /\ UNCHANGED top_result
    /\ UNCHANGED <<top_conversations, top_llm>>
    /\ OutsideTopics

\* A slip: an empty array in the reply goes to the fallback.
MutTopicsFromReplyEmptyFallsBack(outcome) ==
    /\ top_pc = "llm"
    /\ top_llm' = Some(outcome)
    /\ top_pc' = "done"
    /\ LET text == IF outcome.response = None THEN << >> ELSE Get(outcome.response)
           parsed == IF outcome.kind = "raise" \/ ArrayMatch(text) = None
                       THEN None ELSE JsonLoads(Get(ArrayMatch(text)))
       IN  IF parsed # None /\ Get(parsed) # << >>
             THEN top_result' = Some(TopicsReturn("llm", Head5(Get(parsed))))
             ELSE \E topics \in FallbackReturns(top_conversations) :
                     top_result' = Some(TopicsReturn("fallback", topics))
    /\ UNCHANGED top_conversations
    /\ OutsideTopics

\* _extract_topics from the answer of the LLM on (lines 225-251): the first
\* bracketed span of the reply, when json.loads takes it, is returned cut to
\* 5 entries; without a span, with a span json.loads refuses, and after any
\* exception, _extract_topics_fallback answers.
TopicsFromReply(outcome) ==
    /\ top_pc = "llm"
    /\ top_llm' = Some(outcome)
    /\ top_pc' = "done"
    /\ LET text == IF outcome.response = None THEN << >> ELSE Get(outcome.response)
           parsed == IF outcome.kind = "raise" \/ ArrayMatch(text) = None
                       THEN None ELSE JsonLoads(Get(ArrayMatch(text)))
       IN  IF parsed # None
             THEN top_result' = Some(TopicsReturn("llm", Head5(Get(parsed))))
             ELSE \E topics \in FallbackReturns(top_conversations) :
                     top_result' = Some(TopicsReturn("fallback", topics))
    /\ UNCHANGED top_conversations
    /\ OutsideTopics

TopicsNext ==
    \/ extract_topics
    \/ \E o \in LlmOutcomes : TopicsFromReply(o)

-----------------------------------------------------------------------------
(* BedrockService.process_natural_language and _parse_nlp_response            *)
(* (src/services/bedrock_service.py)                                          *)

\* user_input of process_natural_language.
NlpInputs == {"what should I eat", "", "hello"}

\* user_profile: a UserProfile, or None as _extract_topics passes it.
NlpProfiles == {Some("profile"), None}

\* conversation_history: None, a list of {role, content} dicts, a list with
\* a dict that lacks "role".
NlpHistories == {"none", "well_formed", "lacks_role"}

\* A member of a JSON object in a reply, and its key and value.
JsonMembers == {"intent=food_inquiry", "response=eat_less", "confidence=0.9"}

MemberKey(member) ==
    CASE member = "intent=food_inquiry" -> "intent"
      [] member = "response=eat_less" -> "response"
      [] member = "confidence=0.9" -> "confidence"

MemberValue(member) ==
    CASE member = "intent=food_inquiry" -> "food_inquiry"
      [] member = "response=eat_less" -> "eat_less"
      [] member = "confidence=0.9" -> "0.9"

\* A reply text, as its characters in classes: "{" and "}", ",", "sp" (a
\* blank) and "nl" (a newline), "w" (other text), and the members above.
NlpReplyTexts ==
    {<< >>,
     <<"w">>,
     <<"sp", "w", "sp", "w", "nl">>,
     <<"w", "{", "w">>,
     <<"}", "w", "{">>,
     <<"{", "}">>,
     <<"{", "intent=food_inquiry", ",", "response=eat_less", ",", "confidence=0.9", "}">>,
     <<"{", "nl", "response=eat_less", ",", "nl", "confidence=0.9", "nl", "}">>,
     <<"w", "sp", "{", "response=eat_less", "}", "nl">>,
     <<"{", "w", "}">>,
     <<"w", "{", "w", "}", "w">>,
     <<"{", "response=eat_less", ",", "}">>,
     <<"{", "intent=food_inquiry", "}", "w", "{", "response=eat_less", "}">>,
     <<"{", "{", "response=eat_less", "}">>}

\* How _invoke_bedrock_text ends: with the text of the reply, or raising
\* (converse raises, or the response lacks the text).
InvokeOutcomes ==
    {[kind |-> "text", text |-> t] : t \in NlpReplyTexts}
      \cup {[kind |-> "raise", text |-> << >>]}

\* re.search(r'\{.*\}', response, re.DOTALL): from the first "{" to the last
\* "}" of the text, when the last "}" comes after the first "{".
JsonMatch(text) ==
    LET opens == {i \in 1..Len(text) : text[i] = "{"}
        closes == {j \in 1..Len(text) : text[j] = "}"}
    IN  IF opens = {} \/ closes = {} THEN None
        ELSE LET i == CHOOSE o \in opens : \A x \in opens : o <= x
                 j == CHOOSE c \in closes : \A x \in closes : c >= x
             IN  IF i < j THEN Some(SubSeq(text, i, j)) ELSE None

\* json.loads of a matched span "{ ... }": the members of the object when
\* the inside, blanks and newlines apart, is empty or members separated by
\* commas; None when it raises.
JsonLoadsObject(span) ==
    LET inside == SelectSeq(SubSeq(span, 2, Len(span) - 1),
                            LAMBDA c : c \notin {"sp", "nl"})
        valid == \/ inside = << >>
                 \/ /\ Len(inside) % 2 = 1
                    /\ \A k \in 1..Len(inside) :
                          IF k % 2 = 1 THEN inside[k] \in JsonMembers
                                       ELSE inside[k] = ","
    IN  IF valid
          THEN Some({inside[k] : k \in {n \in 1..Len(inside) : n % 2 = 1}})
          ELSE None

\* str.strip(): the text without its leading and trailing blanks and
\* newlines.
Strip(text) ==
    LET solid == {i \in 1..Len(text) : text[i] \notin {"sp", "nl"}}
    IN  IF solid = {} THEN << >>
        ELSE SubSeq(text, CHOOSE a \in solid : \A x \in solid : a <= x,
                          CHOOSE b \in solid : \A x \in solid : b >= x)

\* The value of a key of a parsed object; None for a key it does not hold.
Field(members, key) ==
    IF \E m \in members : MemberKey(m) = key
      THEN Some(MemberValue(CHOOSE m \in members : MemberKey(m) = key))
      ELSE None

\* The dict json.loads returned, as handed back by _parse_nlp_response (line
\* 450): whatever keys the reply's object holds.
ParsedReply(members) ==
    [origin |-> "parsed", intent |-> Field(members, "intent"),
     response |-> Field(members, "response"), text |-> << >>,
     confidence |-> Field(members, "confidence")]

\* The dict for a reply without a JSON object (lines 452-457).
GeneralChat(text) ==
    [origin |-> "raw", intent |-> Some("general_chat"),
     response |-> Some("the_reply_stripped"), text |-> Strip(text),
     confidence |-> Some("0.5")]

\* The dict of both except branches (lines 147-153 and 460-465); the
\* response is "joesonghamnida. dasi malsseumhae jusigesseoyo?"
PleaseRepeat ==
    [origin |-> "fixed", intent |-> Some("unknown"),
     response |-> Some("sorry_please_say_again"), text |-> << >>,
     confidence |-> Some("0.0")]

\* A slip: the except branch of _parse_nlp_response answers like its else
\* branch.
MutParseFailureGivesRawText(response) ==
    IF JsonMatch(response) = None THEN GeneralChat(response)
    ELSE IF JsonLoadsObject(Get(JsonMatch(response))) = None
      THEN GeneralChat(response)
      ELSE ParsedReply(Get(JsonLoadsObject(Get(JsonMatch(response)))))

\* _parse_nlp_response (lines 444-465).
parse_nlp_response(response) ==
    IF JsonMatch(response) = None THEN GeneralChat(response)
    ELSE IF JsonLoadsObject(Get(JsonMatch(response))) = None
      THEN PleaseRepeat
      ELSE ParsedReply(Get(JsonLoadsObject(Get(JsonMatch(response)))))

\* No call made.
NlpIdle ==
    /\ nlp_pc = "idle"
    /\ nlp_args = None
    /\ nlp_llm = None
    /\ nlp_result = None

\* A call about to be made.
NlpReady ==
    /\ nlp_pc = "ready"
    /\ nlp_args \in [user_input : NlpInputs, user_profile : NlpProfiles,
                     conversation_history : NlpHistories]
    /\ nlp_llm = None
    /\ nlp_result = None

\* process_natural_language up to its await (lines 132-137):
\* _create_nlp_prompt reads user_profile.health_goal and msg['role'], and
\* raises into the except branch for a None profile or a dict without "role".
process_natural_language ==
    /\ nlp_pc = "ready"
    /\ IF nlp_args.user_profile = None \/ nlp_args.conversation_history = "lacks_role"
         THEN /\ nlp_pc' = "done"
              /\ nlp_result' = Some(PleaseRepeat)
         ELSE /\ nlp_pc' = "llm"
              /\ UNCHANGED nlp_result
    /\ UNCHANGED <<nlp_args, nlp_llm>>
    /\ OutsideNlp

\* process_natural_language from the answer of _invoke_bedrock_text on
\* (lines 137-153).
NlpFromReply(outcome) ==
    /\ nlp_pc = "llm"
    /\ nlp_llm' = Some(outcome)
    /\ nlp_pc' = "done"
    /\ nlp_result' = IF outcome.kind = "raise" THEN Some(PleaseRepeat)
                     ELSE Some(parse_nlp_response(outcome.text))
    /\ UNCHANGED nlp_args
    /\ OutsideNlp

NlpNext ==
    \/ process_natural_language
    \/ \E o \in InvokeOutcomes : NlpFromReply(o)

-----------------------------------------------------------------------------
(* The analyze_food_image tool of agents/tools/diet_tools.py *)

\* The dict of an early return or of the except branch: {"error": message}.
ErrorDict(message) ==
    [error |-> Some(message), meal_id |-> None, foods |-> << >>,
     total_nutrition |-> None, image_url |-> None]

\* The per-food entries of the summary (lines 85-93).
FoodSummaries(items) ==
    [i \in 1..Len(items) |->
        [name |-> items[i].name, quantity |-> items[i].quantity,
         calories |-> items[i].nutrition.calories,
         confidence |-> items[i].confidence]]

\* Lines 58-61: the plain sums of the four nutrients, not rounded.
TotalOf(items) ==
    NutritionInfo(SumSeq([i \in 1..Len(items) |-> items[i].nutrition.calories]),
                  SumSeq([i \in 1..Len(items) |-> items[i].nutrition.carbohydrates]),
                  SumSeq([i \in 1..Len(items) |-> items[i].nutrition.protein]),
                  SumSeq([i \in 1..Len(items) |-> items[i].nutrition.fat]),
                  None, None)

\* The dict of the normal return (lines 83-102), without analysis_time.
SuccessSummary(mid, items, url) ==
    [error |-> None, meal_id |-> Some(mid), foods |-> FoodSummaries(items),
     total_nutrition |-> Some(TotalOf(items)), image_url |-> url]

DietCall(fn, outcome) == [fn |-> fn, outcome |-> outcome]

DietIdle ==
    /\ dt_pc = "idle"
    /\ dt_args = [user_id |-> "test_user", meal_type |-> "lunch", people_count |-> 1]
    /\ dt_meal_id = "meal_1"
    /\ dt_image_url = None
    /\ dt_meal_record = None
    /\ dt_calls = << >>
    /\ dt_bucket = {}
    /\ dt_table = {}
    /\ dt_result = None

\* The caller invokes the tool: lines 17-37.
analyze_food_image(user_id, meal_type, people_count, mid) ==
    /\ dt_pc \in {"idle", "done"}
    /\ dt_pc' = "upload"
    /\ dt_args' = [user_id |-> user_id, meal_type |-> meal_type,
                   people_count |-> people_count]
    /\ dt_meal_id' = mid
    /\ dt_image_url' = None
    /\ dt_meal_record' = None
    /\ dt_calls' = << >>
    /\ dt_result' = None
    /\ UNCHANGED <<dt_bucket, dt_table>>
    /\ OutsideDiet

\* Lines 38-46: await upload_image; a returned URL means the image is in
\* storage; no URL ends the call with the upload error.
DietUploadStep(outcome) ==
    /\ dt_pc = "upload"
    /\ dt_calls' = Append(dt_calls, DietCall("upload_image", outcome))
    /\ IF outcome.kind = "raise"
         THEN /\ dt_pc' = "done"
              /\ dt_result' = Some(ErrorDict("exception"))
              /\ UNCHANGED <<dt_image_url, dt_bucket>>
         ELSE /\ dt_image_url' = outcome.value
              /\ IF ~Truthy(outcome.value)
                   THEN /\ dt_pc' = "done"
                        /\ dt_result' = Some(ErrorDict("upload_failed"))
                        /\ UNCHANGED dt_bucket
                   ELSE /\ dt_pc' = "analyze"
                        /\ dt_bucket' = dt_bucket \cup {Get(outcome.value)}
                        /\ UNCHANGED dt_result
    /\ UNCHANGED <<dt_args, dt_meal_id, dt_meal_record, dt_table>>
    /\ OutsideDiet

\* A slip: the image is deleted again when no food is recognised.
MutDietAnalyzeStepCompensates(outcome, timestamp) ==
    /\ dt_pc = "analyze"
    /\ IF outcome.kind = "raise"
         THEN /\ dt_pc' = "done"
              /\ dt_result' = Some(ErrorDict("exception"))
              /\ dt_calls' = Append(dt_calls, DietCall("analyze_food_image", outcome))
              /\ UNCHANGED <<dt_meal_record, dt_bucket>>
         ELSE IF outcome.value = << >>
                THEN /\ dt_pc' = "done"
                     /\ dt_result' = Some(ErrorDict("no_food"))
                     /\ dt_calls' = dt_calls \o
                                      <<DietCall("analyze_food_image", outcome),
                                        DietCall("delete_image", Returns(TRUE))>>
                     /\ dt_bucket' = dt_bucket \ {Get(dt_image_url)}
                     /\ UNCHANGED dt_meal_record
                ELSE /\ dt_calls' = Append(dt_calls, DietCall("analyze_food_image", outcome))
                     /\ UNCHANGED dt_bucket
                     /\ IF MealRecordValid(dt_args.people_count)
                          THEN /\ dt_meal_record' =
                                    Some(MealRecord(dt_args.user_id, dt_meal_id, timestamp,
                                                    dt_args.meal_type, dt_image_url,
                                                    outcome.value, TotalOf(outcome.value),
                                                    dt_args.people_count, None))
                               /\ dt_pc' = "save"
                               /\ UNCHANGED dt_result
                          ELSE /\ dt_pc' = "done"
                               /\ dt_result' = Some(ErrorDict("exception"))
                               /\ UNCHANGED dt_meal_record
    /\ UNCHANGED <<dt_args, dt_meal_id, dt_image_url, dt_table>>
    /\ OutsideDiet

\* Lines 48-78: await analyze_food_image; an empty list ends the call with
\* the no-food error; otherwise the nutrients are summed and the MealRecord
\* is built (which validates people_count).
DietAnalyzeStep(outcome, timestamp) ==
    /\ dt_pc = "analyze"
    /\ dt_calls' = Append(dt_calls, DietCall("analyze_food_image", outcome))
    /\ IF outcome.kind = "raise"
         THEN /\ dt_pc' = "done"
              /\ dt_result' = Some(ErrorDict("exception"))
              /\ UNCHANGED dt_meal_record
         ELSE IF outcome.value = << >>
                THEN /\ dt_pc' = "done"
                     /\ dt_result' = Some(ErrorDict("no_food"))
                     /\ UNCHANGED dt_meal_record
                ELSE IF MealRecordValid(dt_args.people_count)
                       THEN /\ dt_meal_record' =
                                 Some(MealRecord(dt_args.user_id, dt_meal_id, timestamp,
                                                 dt_args.meal_type, dt_image_url,
                                                 outcome.value, TotalOf(outcome.value),
                                                 dt_args.people_count, None))
                            /\ dt_pc' = "save"
                            /\ UNCHANGED dt_result
                       ELSE /\ dt_pc' = "done"
                            /\ dt_result' = Some(ErrorDict("exception"))
                            /\ UNCHANGED dt_meal_record
    /\ UNCHANGED <<dt_args, dt_meal_id, dt_image_url, dt_bucket, dt_table>>
    /\ OutsideDiet

\* A slip: a save that reports failure ends the call with an error.
MutDietSaveStepChecksResult(outcome) ==
    /\ dt_pc = "save"
    /\ dt_calls' = Append(dt_calls, DietCall("save_meal_record", outcome))
    /\ dt_pc' = "done"
    /\ IF outcome.kind = "raise"
         THEN /\ dt_result' = Some(ErrorDict("exception"))
              /\ UNCHANGED dt_table
         ELSE IF outcome.value
                THEN /\ dt_table' = dt_table \cup {dt_meal_id}
                     /\ dt_result' = Some(SuccessSummary(dt_meal_id,
                                                         Get(dt_meal_record).foods,
                                                         dt_image_url))
                ELSE /\ dt_result' = Some(ErrorDict("save_failed"))
                     /\ UNCHANGED dt_table
    /\ UNCHANGED <<dt_args, dt_meal_id, dt_image_url, dt_meal_record, dt_bucket>>
    /\ OutsideDiet

\* Lines 80-102: await save_meal_record, whose result is dropped, and return
\* the summary; the record is in the table when the save returned True.
DietSaveStep(outcome) ==
    /\ dt_pc = "save"
    /\ dt_calls' = Append(dt_calls, DietCall("save_meal_record", outcome))
    /\ dt_pc' = "done"
    /\ IF outcome.kind = "raise"
         THEN /\ dt_result' = Some(ErrorDict("exception"))
              /\ UNCHANGED dt_table
         ELSE /\ dt_table' = IF outcome.value THEN dt_table \cup {dt_meal_id}
                             ELSE dt_table
              /\ dt_result' = Some(SuccessSummary(dt_meal_id,
                                                  Get(dt_meal_record).foods,
                                                  dt_image_url))
    /\ UNCHANGED <<dt_args, dt_meal_id, dt_image_url, dt_meal_record, dt_bucket>>
    /\ OutsideDiet

DietNext ==
    \/ \E u \in UserIds, t \in MealTypes, n \in PeopleCounts, m \in MealIds :
           analyze_food_image(u, t, n, m)
    \/ \E o \in {Returns(v) : v \in UploadReturns} \cup {Raises} : DietUploadStep(o)
    \/ \E o \in {Returns(v) : v \in AnalyzeReturns} \cup {Raises}, ts \in Timestamps :
           DietAnalyzeStep(o, ts)
    \/ \E o \in {Returns(v) : v \in BOOLEAN} \cup {Raises} : DietSaveStep(o)

-----------------------------------------------------------------------------
(* Specifications: one per object, the other objects at rest *)

Init ==
    PipelineInit /\ NutritionIdle /\ MemoryIdle /\ RegistryConstructed /\ McpConstructed
    /\ CoachIdle
    /\ ChatIdle
    /\ MainIdle
    /\ ReanalyzeIdle
    /\ BatchIdle
    /\ ProfilesIdle
    /\ CaloriesIdle
    /\ ProvisionIdle
    /\ StoreIdle
    /\ TopicsIdle
    /\ NlpIdle
    /\ DietIdle

Next ==
    \/ \E u \in UserIds, t \in MealTypes, n \in PeopleCounts, m \in MealIds :
           process_meal_image(u, t, n, m)
    \/ \E o \in {Returns(v) : v \in UploadReturns} \cup {Raises} : UploadStep(o)
    \/ \E o \in {Returns(v) : v \in AnalyzeReturns} \cup {Raises}, ts \in Timestamps :
           AnalyzeStep(o, ts)
    \/ \E o \in {Returns(v) : v \in BOOLEAN} \cup {Raises} : SaveStep(o)
    \/ \E o \in {Returns(v) : v \in BOOLEAN} \cup {Raises} : DeleteStep(o)

\* FoodAnalysisPipeline.process_meal_image against every behaviour of its services.
Spec == Init /\ [][Next]_vars

\* ConversationMemory under every sequence of saves and reads.
MemoryInit ==
    /\ MemoryConstructed
    /\ PipelineInit /\ NutritionIdle /\ RegistryConstructed /\ McpConstructed
    /\ CoachIdle
    /\ ChatIdle
    /\ MainIdle
    /\ ReanalyzeIdle
    /\ BatchIdle
    /\ ProfilesIdle
    /\ CaloriesIdle
    /\ ProvisionIdle
    /\ StoreIdle
    /\ TopicsIdle
    /\ NlpIdle
    /\ DietIdle

SpecMemory == MemoryInit /\ [][MemoryNext]_vars

\* _calculate_total_nutrition handed any bounded list of food items.
NutritionInit ==
    /\ PipelineInit
    /\ MemoryIdle
    /\ RegistryConstructed
    /\ McpConstructed
    /\ nutr_items \in SeqUpTo(NutritionFoods, MaxItems)
    /\ nutr_total = None
    /\ CoachIdle
    /\ ChatIdle
    /\ MainIdle
    /\ ReanalyzeIdle
    /\ BatchIdle
    /\ ProfilesIdle
    /\ CaloriesIdle
    /\ ProvisionIdle
    /\ StoreIdle
    /\ TopicsIdle
    /\ NlpIdle
    /\ DietIdle

NutritionNext == ApplyCalculate

SpecNutrition == NutritionInit /\ [][NutritionNext]_vars

\* ToolRegistry under every sequence of execute_tool calls.
RegistryInit ==
    /\ RegistryConstructed
    /\ PipelineInit /\ NutritionIdle /\ MemoryIdle /\ McpConstructed
    /\ CoachIdle
    /\ ChatIdle
    /\ MainIdle
    /\ ReanalyzeIdle
    /\ BatchIdle
    /\ ProfilesIdle
    /\ CaloriesIdle
    /\ ProvisionIdle
    /\ StoreIdle
    /\ TopicsIdle
    /\ NlpIdle
    /\ DietIdle

SpecRegistry == RegistryInit /\ [][RegistryNext]_vars

\* The MCP endpoints and their caches under every interleaving of requests,
\* tool outcomes and clock steps.
McpInit ==
    /\ McpConstructed
    /\ PipelineInit /\ NutritionIdle /\ MemoryIdle /\ RegistryConstructed
    /\ CoachIdle
    /\ ChatIdle
    /\ MainIdle
    /\ ReanalyzeIdle
    /\ BatchIdle
    /\ ProfilesIdle
    /\ CaloriesIdle
    /\ ProvisionIdle
    /\ StoreIdle
    /\ TopicsIdle
    /\ NlpIdle
    /\ DietIdle

SpecMcp == McpInit /\ [][McpNext]_vars

\* BedrockAgentDietCoach.process_input against every behaviour of the profile
\* lookup and of the LLM.
CoachInit ==
    /\ CoachIdle
    /\ PipelineInit /\ NutritionIdle /\ MemoryIdle /\ RegistryConstructed
    /\ McpConstructed
    /\ ChatIdle
    /\ MainIdle
    /\ ReanalyzeIdle
    /\ BatchIdle
    /\ ProfilesIdle
    /\ CaloriesIdle
    /\ ProvisionIdle
    /\ StoreIdle
    /\ TopicsIdle
    /\ NlpIdle
    /\ DietIdle

SpecCoach == CoachInit /\ [][CoachNext]_vars

\* POST /chat against every upload, every outcome of the read and of the coach.
ChatInit ==
    /\ ChatIdle
    /\ PipelineInit /\ NutritionIdle /\ MemoryIdle /\ RegistryConstructed
    /\ McpConstructed /\ CoachIdle
    /\ MainIdle
    /\ ReanalyzeIdle
    /\ BatchIdle
    /\ ProfilesIdle
    /\ CaloriesIdle
    /\ ProvisionIdle
    /\ StoreIdle
    /\ TopicsIdle
    /\ NlpIdle
    /\ DietIdle

SpecChat == ChatInit /\ [][ChatNext]_vars

\* The backend-main tool endpoint under every sequence of requests.
MainInit ==
    /\ MainIdle
    /\ PipelineInit /\ NutritionIdle /\ MemoryIdle /\ RegistryConstructed
    /\ McpConstructed /\ CoachIdle /\ ChatIdle
    /\ ReanalyzeIdle
    /\ BatchIdle
    /\ ProfilesIdle
    /\ CaloriesIdle
    /\ ProvisionIdle
    /\ StoreIdle
    /\ TopicsIdle
    /\ NlpIdle
    /\ DietIdle

SpecMain == MainInit /\ [][MainNext]_vars

\* FoodAnalysisPipeline.reanalyze_meal against every behaviour of its services.
ReanalyzeInit ==
    /\ ReanalyzeIdle
    /\ PipelineInit /\ NutritionIdle /\ MemoryIdle /\ RegistryConstructed
    /\ McpConstructed /\ CoachIdle /\ ChatIdle /\ MainIdle
    /\ BatchIdle
    /\ ProfilesIdle
    /\ CaloriesIdle
    /\ ProvisionIdle
    /\ StoreIdle
    /\ TopicsIdle
    /\ NlpIdle
    /\ DietIdle

SpecReanalyze == ReanalyzeInit /\ [][ReanalyzeNext]_vars

\* FoodAnalysisPipeline.batch_process_images over every bounded batch.
BatchInit ==
    /\ BatchIdle
    /\ PipelineInit /\ NutritionIdle /\ MemoryIdle /\ RegistryConstructed
    /\ McpConstructed /\ CoachIdle /\ ChatIdle /\ MainIdle /\ ReanalyzeIdle
    /\ ProfilesIdle
    /\ CaloriesIdle
    /\ ProvisionIdle
    /\ StoreIdle
    /\ TopicsIdle
    /\ NlpIdle
    /\ DietIdle

SpecBatch == BatchInit /\ [][BatchNext]_vars

\* The profile tools under every sequence of calls.
ProfilesInit ==
    /\ ProfilesIdle
    /\ PipelineInit /\ NutritionIdle /\ MemoryIdle /\ RegistryConstructed
    /\ McpConstructed /\ CoachIdle /\ ChatIdle /\ MainIdle /\ ReanalyzeIdle
    /\ BatchIdle /\ CaloriesIdle
    /\ ProvisionIdle
    /\ StoreIdle
    /\ TopicsIdle
    /\ NlpIdle
    /\ DietIdle

SpecProfiles == ProfilesInit /\ [][ProfilesNext]_vars

\* The four target-calorie computations handed any bounded profile.
CaloriesInit ==
    /\ cal_input \in CalorieInputs
    /\ cal_targets = None
    /\ PipelineInit /\ NutritionIdle /\ MemoryIdle /\ RegistryConstructed
    /\ McpConstructed /\ CoachIdle /\ ChatIdle /\ MainIdle /\ ReanalyzeIdle
    /\ BatchIdle /\ ProfilesIdle
    /\ ProvisionIdle
    /\ StoreIdle
    /\ TopicsIdle
    /\ NlpIdle
    /\ DietIdle

SpecCalories == CaloriesInit /\ [][CaloriesNext]_vars

\* process_input where an attempt of the image loop that has been started
\* comes to an end: converse is a blocking call that returns or raises, and
\* time.sleep returns.
SpecCoachLive ==
    /\ CoachInit
    /\ [][CoachNext]_vars
    /\ WF_vars(\E o \in ConverseOutcomes : ImageStep(o))

\* One run of a provisioning script against every sequence of statuses and
\* failures of the service.
ProvisionInit ==
    /\ ProvisionIdle
    /\ PipelineInit /\ NutritionIdle /\ MemoryIdle /\ RegistryConstructed
    /\ McpConstructed /\ CoachIdle /\ ChatIdle /\ MainIdle /\ ReanalyzeIdle
    /\ BatchIdle /\ ProfilesIdle /\ CaloriesIdle
    /\ StoreIdle
    /\ TopicsIdle
    /\ NlpIdle
    /\ DietIdle

SpecProvision == ProvisionInit /\ [][ProvisionNext]_vars

\* One profile, with every choice of its three lists, saved and read back.
StoreInit ==
    /\ StoreBuilt
    /\ PipelineInit /\ NutritionIdle /\ MemoryIdle /\ RegistryConstructed
    /\ McpConstructed /\ CoachIdle /\ ChatIdle /\ MainIdle /\ ReanalyzeIdle
    /\ BatchIdle /\ ProfilesIdle /\ CaloriesIdle /\ ProvisionIdle
    /\ TopicsIdle
    /\ NlpIdle
    /\ DietIdle

SpecStore == StoreInit /\ [][StoreNext]_vars

\* One call of _extract_topics for every conversation list and every answer
\* of the LLM.
TopicsInit ==
    /\ TopicsReady
    /\ PipelineInit /\ NutritionIdle /\ MemoryIdle /\ RegistryConstructed
    /\ McpConstructed /\ CoachIdle /\ ChatIdle /\ MainIdle /\ ReanalyzeIdle
    /\ BatchIdle /\ ProfilesIdle /\ CaloriesIdle /\ ProvisionIdle /\ StoreIdle
    /\ NlpIdle
    /\ DietIdle

SpecTopics == TopicsInit /\ [][TopicsNext]_vars

\* One call of process_natural_language for every argument shape and every
\* answer of the LLM.
NlpInit ==
    /\ NlpReady
    /\ PipelineInit /\ NutritionIdle /\ MemoryIdle /\ RegistryConstructed
    /\ McpConstructed /\ CoachIdle /\ ChatIdle /\ MainIdle /\ ReanalyzeIdle
    /\ BatchIdle /\ ProfilesIdle /\ CaloriesIdle /\ ProvisionIdle /\ StoreIdle
    /\ TopicsIdle
    /\ DietIdle

SpecNlp == NlpInit /\ [][NlpNext]_vars

\* The analyze_food_image tool against every behaviour of its services.
DietInit ==
    /\ DietIdle
    /\ PipelineInit /\ NutritionIdle /\ MemoryIdle /\ RegistryConstructed
    /\ McpConstructed /\ CoachIdle /\ ChatIdle /\ MainIdle /\ ReanalyzeIdle
    /\ BatchIdle /\ ProfilesIdle /\ CaloriesIdle /\ ProvisionIdle /\ StoreIdle
    /\ TopicsIdle /\ NlpIdle

SpecDiet == DietInit /\ [][DietNext]_vars

-----------------------------------------------------------------------------
(* Claims about process_meal_image *)

\* What the single call to fn of the call in flight did, if it was made.
Made(fn) == Len(CallsTo(fn)) = 1

OutcomeOf(fn) == CallsTo(fn)[1].outcome

UploadSucceeded ==
    /\ Made("upload_image")
    /\ OutcomeOf("upload_image").kind = "return"
    /\ Truthy(OutcomeOf("upload_image").value)

UploadGaveNoUrl ==
    /\ Made("upload_image")
    /\ OutcomeOf("upload_image").kind = "return"
    /\ ~Truthy(OutcomeOf("upload_image").value)

SaveReported(b) ==
    /\ Made("save_meal_record")
    /\ OutcomeOf("save_meal_record") = Returns(b)

\* C1: when the upload succeeded and save_meal_record then reports failure,
\* the call has, by the time it returns, invoked delete_image exactly once,
\* with the URL the upload returned, and it returns None.
C1_RollbackOnSaveFailure ==
    (pc = "done" /\ UploadSucceeded /\ SaveReported(FALSE)) =>
        /\ Len(CallsTo("delete_image")) = 1
        /\ CallsTo("delete_image")[1].arg = OutcomeOf("upload_image").value
        /\ calls[Len(calls)].fn = "delete_image"
        /\ result = None

C1_Witness ==
    /\ pc = "done"
    /\ UploadSucceeded
    /\ SaveReported(FALSE)
    /\ Len(CallsTo("delete_image")) = 1

\* C2: a returned MealRecord never has an empty foods list; when the analysis
\* yields no item, exactly the one placeholder item (the default name,
\* confidence 0.1) is what the record is built from and saved with.
C2_FoodsNeverEmpty ==
    /\ result # None => Len(Get(result).foods) >= 1
    /\ (Made("analyze_food_image") /\ OutcomeOf("analyze_food_image") = Returns(<< >>)
            /\ meal_record # None) =>
        /\ Len(Get(meal_record).foods) = 1
        /\ Get(meal_record).foods[1].name = DefaultName
        /\ Get(meal_record).foods[1].confidence = DefaultConfidence
        /\ \A i \in 1..Len(calls) :
               calls[i].fn = "save_meal_record" => calls[i].arg = meal_record

C2_Witness ==
    /\ pc = "done"
    /\ result # None
    /\ OutcomeOf("analyze_food_image") = Returns(<< >>)
    /\ Get(result).foods = <<create_default_food_item>>

\* C3: when the upload returns no URL the call returns None and has invoked
\* neither the image analysis nor save_meal_record nor delete_image.
C3_UploadFailureAborts ==
    UploadGaveNoUrl =>
        /\ pc = "done"
        /\ result = None
        /\ Len(calls) = 1

C3_Witness ==
    /\ UploadGaveNoUrl
    /\ pc = "done"
    /\ OutcomeOf("upload_image").value = Some("")

\* C4: when upload, analysis and save all succeed the call returns a
\* MealRecord with the caller's user_id and meal_type and the uploaded URL,
\* save_meal_record was called exactly once, with that record, and
\* delete_image was not called.
C4_SuccessPath ==
    (UploadSucceeded /\ Made("analyze_food_image")
        /\ OutcomeOf("analyze_food_image").kind = "return" /\ SaveReported(TRUE)) =>
        /\ pc = "done"
        /\ result # None
        /\ Get(result).user_id = call_args.user_id
        /\ Get(result).meal_type = call_args.meal_type
        /\ Get(result).image_url = OutcomeOf("upload_image").value
        /\ Len(CallsTo("save_meal_record")) = 1
        /\ CallsTo("save_meal_record")[1].arg = result
        /\ CallsTo("delete_image") = << >>

C4_Witness ==
    /\ pc = "done"
    /\ UploadSucceeded
    /\ SaveReported(TRUE)
    /\ result # None
    /\ Get(result).user_id = "user_2"
    /\ Get(result).meal_type = "breakfast"

-----------------------------------------------------------------------------
(* Claims about _calculate_total_nutrition *)

RECURSIVE FieldSum(_, _, _)
\* The sum of nutrition field f over the first n items (exact, unrounded).
FieldSum(items, f, n) ==
    IF n = 0 THEN 0 ELSE FieldSum(items, f, n - 1) + items[n].nutrition[f]

RECURSIVE PresentSum(_, _, _)
\* The sum of optional field f over those of the first n items that have it.
PresentSum(items, f, n) ==
    IF n = 0 THEN 0
    ELSE PresentSum(items, f, n - 1)
         + (IF items[n].nutrition[f] = None THEN 0 ELSE Get(items[n].nutrition[f]))

AnyHas(items, f) == \E i \in 1..Len(items) : items[i].nutrition[f] # None

\* The claim as stated: exact sums, and fiber/sodium present exactly when
\* some item has the field.
SumsAsStated(items, total) ==
    /\ \A f \in {"calories", "carbohydrates", "protein", "fat"} :
           total[f] = FieldSum(items, f, Len(items))
    /\ \A f \in {"fiber", "sodium"} :
           total[f] = IF AnyHas(items, f)
                        THEN Some(PresentSum(items, f, Len(items)))
                        ELSE None

\* What the code returns: sums rounded to two decimals, and fiber/sodium
\* present exactly when the sum is greater than zero.
SumsRounded(items, total) ==
    /\ \A f \in {"calories", "carbohydrates", "protein", "fat"} :
           total[f] = Round2(FieldSum(items, f, Len(items)))
    /\ \A f \in {"fiber", "sodium"} :
           total[f] = IF PresentSum(items, f, Len(items)) > 0
                        THEN Some(Round2(PresentSum(items, f, Len(items))))
                        ELSE None

\* C5 as stated: for every list of food items the four main fields are the
\* field-wise sums, and fiber (sodium) is the sum when any item has the field
\* and absent when none has it.
C5_AsStated == nutr_total # None => SumsAsStated(nutr_items, Get(nutr_total))

\* C5 amended: the four main fields are the field-wise sums rounded to two
\* decimals; fiber (sodium) is the rounded sum over the items that have the
\* field when that sum is greater than zero, and absent otherwise (so absent
\* when no item has the field, and also when the items that have it sum to 0).
C5_RoundedSums == nutr_total # None => SumsRounded(nutr_items, Get(nutr_total))

\* Two items, one with fiber 0.0 and third-decimal amounts, have been totalled.
C5_Witness ==
    /\ nutr_total # None
    /\ Len(nutr_items) = 2
    /\ AnyHas(nutr_items, "fiber")
    /\ Get(nutr_total).fiber = None
    /\ Get(nutr_total).sodium # None
    /\ \E i \in 1..2 : nutr_items[i].nutrition.calories % 10 # 0

-----------------------------------------------------------------------------
(* Claims about ConversationMemory *)

Min(a, b) == IF a < b THEN a ELSE b

\* The n most recent elements of s, oldest first (none when n = 0).
MostRecent(s, n) == SubSeq(s, Len(s) - Min(n, Len(s)) + 1, Len(s))

\* C6: after every save_conversation, each user's stored history holds at
\* most max_history entries and is exactly the max_history most recently
\* saved entries of that user, in the order they were saved.
C6_KeepsMostRecentN ==
    \A u \in DOMAIN conversations :
        /\ Len(conversations[u]) <= max_history
        /\ conversations[u] = MostRecent(saved[u], max_history)

\* C7: get_conversation_history(user_id, limit), limit >= 0, returns the
\* most recent limit entries of the user's history in chronological order,
\* min(limit, stored length) of them, and the empty list for an unknown user.
C7_ReturnsMostRecentLimit ==
    history_reply # None =>
        LET q == Get(history_reply)
        IN  /\ Len(q.reply) = Min(q.limit, Len(q.stored))
            /\ q.reply = MostRecent(q.stored, q.limit)
            /\ ~q.known => q.reply = << >>

-----------------------------------------------------------------------------
(* Claims about ToolRegistry *)

\* The registered tools whose function comes from module m.
ToolsOf(m) == {n \in DOMAIN tools : tools[n].function.module = m}

\* C8: execute_tool on a registered name invokes that tool's function exactly
\* once (awaited when it is a coroutine function, called directly otherwise)
\* with the caller's arguments and ends as the tool ended, its result
\* unchanged; on an unregistered name it raises the unknown-tool error and
\* invokes nothing.
C8_ExecuteDispatch ==
    exec_reply # None =>
        LET r == Get(exec_reply)
        IN  IF r.tool_name \in DOMAIN tools
              THEN /\ Len(r.invoked) = 1
                   /\ r.invoked[1].function = tools[r.tool_name].function
                   /\ r.invoked[1].kwargs = r.kwargs
                   /\ r.invoked[1].how =
                        (IF tools[r.tool_name].function.is_async THEN "await" ELSE "call")
                   /\ r.outcome = r.tool_outcome
              ELSE /\ r.invoked = << >>
                   /\ r.outcome = UnknownTool

\* Both cases have happened: an unregistered name after a registered one.
C8_Witness ==
    /\ exec_reply # None
    /\ Get(exec_reply).tool_name = "create_user_profile"
    /\ Get(exec_reply).outcome = UnknownTool
    /\ invoke_log = <<"update_user_goals">>

\* C9 as stated: the constructed registry holds exactly 12 tools, 4 diet,
\* 4 coaching, 3 schedule and 3 user, each under a distinct name.
C9_TwelveTools ==
    /\ Cardinality(DOMAIN tools) = 12
    /\ Cardinality(ToolsOf("diet_tools")) = 4
    /\ Cardinality(ToolsOf("coaching_tools")) = 4
    /\ Cardinality(ToolsOf("schedule_tools")) = 3
    /\ Cardinality(ToolsOf("user_tools")) = 3
    /\ Cardinality(DOMAIN tools) = Len(Registrations)

\* C9 amended: the constructed registry holds exactly 14 tools, 4 diet,
\* 4 coaching, 3 schedule and 3 user, each under a distinct name (as many
\* names as registrations, every tool stored under its own name).
C9_FourteenTools ==
    /\ Cardinality(DOMAIN tools) = 14
    /\ Cardinality(ToolsOf("diet_tools")) = 4
    /\ Cardinality(ToolsOf("coaching_tools")) = 4
    /\ Cardinality(ToolsOf("schedule_tools")) = 3
    /\ Cardinality(ToolsOf("user_tools")) = 3
    /\ Cardinality(DOMAIN tools) = Len(Registrations)
    /\ \A n \in DOMAIN tools : tools[n].name = n

\* The registry right after construction, before any execute_tool.
C9_Witness ==
    /\ exec_reply = None
    /\ invoke_log = << >>
    /\ DOMAIN tools # {}
    /\ "get_user_preferences" \in DOMAIN tools

-----------------------------------------------------------------------------
(* Claims about the TTL caches *)

\* C10: a cache lookup never returns a value stored TTL or more seconds
\* earlier (600 s for the tool catalog, 180 s for tool-call responses): a
\* lookup of an entry of age >= TTL deletes the entry and reports a miss, a
\* lookup of an entry younger than TTL returns exactly the stored value.
C10_TtlRespected ==
    lookup # None =>
        LET l == Get(lookup)
        IN  /\ l.ttl = (IF l.cache = "tools" THEN 600 ELSE 180)
            /\ (l.had /\ l.age >= l.ttl) => (l.returned = None /\ ~l.kept)
            /\ (l.had /\ l.age < l.ttl) => (l.returned = l.stored /\ l.kept)
            /\ ~l.had => l.returned = None

\* The boundary case: a catalog entry exactly TTL seconds old was found,
\* dropped and reported as a miss.
C10_Witness ==
    /\ lookup # None
    /\ Get(lookup).had
    /\ Get(lookup).age = Get(lookup).ttl
    /\ Get(lookup).cache = "tools"
    /\ Get(lookup).returned = None

-----------------------------------------------------------------------------
(* Claims about the /mcp/tools/call response cache *)

\* The argument name/value pairs of a cache key, without their order.
PairsOf(key) == {key[2][i] : i \in 1..Len(key[2])}

\* Two cache keys of one call: the same tool name and the same pairs.
SameCall(k1, k2) == k1[1] = k2[1] /\ PairsOf(k1) = PairsOf(k2)

\* C11: two requests with the same tool name and the same argument
\* name/value pairs map to the same cache entry, whatever the order of the
\* arguments in the request: the cache never holds two entries for one call.
C11_KeyIgnoresArgumentOrder ==
    \A k1 \in DOMAIN response_cache, k2 \in DOMAIN response_cache :
        SameCall(k1, k2) => k1 = k2

\* A /mcp/tools/call response that reports success: not the except branch's
\* response, and the tool's result carries no error.
SuccessResponse(response) ==
    /\ ~response.isError
    /\ response.content[2].error = None

\* The response cache holds something after the step that it did not hold
\* before it.
CachedMore ==
    \E k \in DOMAIN response_cache' :
        k \notin DOMAIN response_cache \/ response_cache'[k] # response_cache[k]

\* The step is the completion of a tool execution of /mcp/tools/call.
FinishedCall == Len(in_flight') < Len(in_flight)

C12_OnlySuccessesAreStored ==
    /\ CachedMore => (FinishedCall /\ SuccessResponse(Get(Get(mcp_reply').response)))
    /\ (FinishedCall /\ ~SuccessResponse(Get(Get(mcp_reply').response)))
          => response_cache' = response_cache
    /\ (FinishedCall /\ SuccessResponse(Get(Get(mcp_reply').response)))
          => \E k \in DOMAIN response_cache' :
                 response_cache'[k] = Entry(Get(Get(mcp_reply').response), now)

C12_CacheHoldsOnlySuccesses ==
    /\ \A k \in DOMAIN response_cache : SuccessResponse(response_cache[k].data)
    /\ (lookup # None /\ Get(lookup).cache = "response" /\ Get(lookup).returned # None)
          => SuccessResponse(Get(Get(lookup).returned))

\* C12: the response cache gains an entry only in the step that completes a
\* tool execution whose result carries no error; a completion with an error
\* result, with no result or with a raised exception leaves the cache as it
\* was, so every entry of the cache, and every response served from it, is a
\* success and a failed call is never answered from the cache.
C12_CachedOnlyWithoutError ==
    [][C12_OnlySuccessesAreStored]_vars /\ []C12_CacheHoldsOnlySuccesses

\* A call has just completed with an error result and the cache is empty: the
\* error response was not stored.
C12_Witness ==
    /\ mcp_reply # None
    /\ Get(mcp_reply).endpoint = "call"
    /\ ~Get(mcp_reply).cached
    /\ ~Get(Get(mcp_reply).response).isError
    /\ Get(Get(mcp_reply).response).content[2].error # None
    /\ tool_runs # << >>
    /\ response_cache = << >>

-----------------------------------------------------------------------------
(* Claims about BedrockAgentDietCoach.process_input *)

\* The calls of the record of the call in flight.
CoachCalls == {coach_log[i].call : i \in 1..Len(coach_log)}

\* The LLM gave a text in the last thing the call did.
LlmAnswered ==
    /\ coach_log # << >>
    /\ coach_log[Len(coach_log)].call = "bedrock-runtime.converse"
    /\ coach_log[Len(coach_log)].outcome = "text"

\* C13: process_input never invokes the managed agent runtime
\* (bedrock-agent-runtime) and never raises: every call enters
\* _fallback_to_claude first, and ends with an envelope holding success and
\* response; success is true exactly when the LLM answered with a text, and
\* otherwise the response is one of the two fixed apology texts.
C13_AlwaysFallbackEnvelope ==
    /\ "bedrock-agent-runtime.invoke_agent" \notin CoachCalls
    /\ coach_pc # "idle" =>
          (coach_log # << >> /\ coach_log[1].call = "_fallback_to_claude")
    /\ coach_pc = "done" <=> coach_reply # None
    /\ coach_reply # None =>
          /\ Get(coach_reply).kind = "return"
          /\ Get(coach_reply).value # None
          /\ LET envelope == Get(Get(coach_reply).value)
             IN  /\ envelope.success \in BOOLEAN
                 /\ envelope.success <=> LlmAnswered
                 /\ envelope.success => envelope.response = "llm_text"
                 /\ ~envelope.success =>
                       envelope.response \in {ClaudeFailure.response, ImageFailure.response}

\* The LLM call of the text path raised, after process_input went through its
\* own except branch, and the caller got the success=false envelope.
C13_Witness ==
    /\ coach_pc = "done"
    /\ coach_args.route = "except"
    /\ coach_log[Len(coach_log)] = Invoked("bedrock-runtime.converse", "raise")
    /\ coach_reply = Some(Returns(Some(ClaudeFailure)))

-----------------------------------------------------------------------------
(* Claims about the Agent API POST /chat *)

\* The request in flight carries an image whose file name is not empty and
\* does not end in an allowed extension.
ChatRejected ==
    /\ chat_args # None
    /\ Get(chat_args).image # None
    /\ Get(Get(chat_args).image).filename # << >>
    /\ \A ext \in AllowedExtensions :
          LET name == Lower(Get(Get(chat_args).image).filename)
          IN  \/ Len(name) < Len(ext)
              \/ \E i \in 1..Len(ext) : name[Len(name) - Len(ext) + i] # ext[i]

-----------------------------------------------------------------------------
(* Claims about the backend main POST /mcp/tools/call *)

\* C15: the endpoint executes no tool but create_user_profile, and a request
\* naming any other tool is answered with HTTP status 400 and executes nothing.
C15_UnknownToolIs400 ==
    /\ \A i \in 1..Len(main_runs) : main_runs[i].name = "create_user_profile"
    /\ (main_reply # None /\ Get(main_reply).request.name # "create_user_profile") =>
          /\ ~Get(main_reply).ran
          /\ Get(main_reply).response.status = 400

-----------------------------------------------------------------------------
(* Claims about reanalyze_meal *)

\* The calls of reanalyze_meal to one service.
ReanalyzeCallsTo(fn) == SelectSeq(rean_calls, LAMBDA c : c.fn = fn)

\* The re-analysis of the call was made and returned a list of items.
Reanalyzed ==
    /\ ReanalyzeCallsTo("analyze_food_image") # << >>
    /\ ReanalyzeCallsTo("analyze_food_image")[1].outcome.kind = "return"

ReanalyzedItems == ReanalyzeCallsTo("analyze_food_image")[1].outcome.value

\* The one write targets the stored record's user_id and meal_id and carries
\* its timestamp, meal_type, image_url and notes, with the new items.
OneWritePreserving ==
    /\ Len(ReanalyzeCallsTo("save_meal_record")) = 1
    /\ LET written == Get(ReanalyzeCallsTo("save_meal_record")[1].arg)
           existing == Get(existing_meal)
       IN  /\ written.user_id = existing.user_id
           /\ written.user_id = Get(rean_args).user_id
           /\ written.meal_id = existing.meal_id
           /\ written.meal_id = Get(rean_args).meal_id
           /\ written.timestamp = existing.timestamp
           /\ written.meal_type = existing.meal_type
           /\ written.image_url = existing.image_url
           /\ written.notes = existing.notes
           /\ written.foods = ReanalyzedItems

\* The call returned the stored record as it was read, and wrote nothing.
ReturnedExistingUnwritten ==
    /\ rean_result = existing_meal
    /\ existing_meal # None
    /\ ReanalyzeCallsTo("save_meal_record") = << >>

\* C16: when the re-analysis yields no food items reanalyze_meal returns the
\* stored record unchanged and writes nothing; when it yields items exactly
\* one write is made, to the same user_id and meal_id, preserving timestamp,
\* meal_type, image_url and notes.
C16_AsStated ==
    (rean_pc = "done" /\ Reanalyzed) =>
        IF ReanalyzedItems = << >>
          THEN ReturnedExistingUnwritten
          ELSE OneWritePreserving

\* C16 (amended): as C16, the write being made when the people count of the
\* updated record (the argument if it is given and not 0, else the stored
\* count) is at least 1; with a smaller count the record fails its
\* validation and the call returns None without a write.
C16_WriteWhenCountValid ==
    /\ (rean_pc = "done" /\ Reanalyzed) =>
          IF ReanalyzedItems = << >>
            THEN ReturnedExistingUnwritten
            ELSE IF NewPeopleCount(Get(rean_args).people_count, Get(existing_meal)) >= 1
              THEN OneWritePreserving
              ELSE /\ ReanalyzeCallsTo("save_meal_record") = << >>
                   /\ rean_result = None
    /\ ~Reanalyzed => ReanalyzeCallsTo("save_meal_record") = << >>
    /\ Len(ReanalyzeCallsTo("save_meal_record")) <= 1

\* A re-analysis with items was written once and returned, for a stored
\* record that has notes and a people count the call replaced.
C16_Witness ==
    /\ rean_pc = "done"
    /\ Reanalyzed
    /\ ReanalyzedItems # << >>
    /\ Len(ReanalyzeCallsTo("save_meal_record")) = 1
    /\ rean_result = updated_meal
    /\ rean_result # None
    /\ Get(rean_result).notes = Some("with friends")
    /\ Get(rean_result).people_count = 3

\* A re-analysis without items returned the stored record.
C16_WitnessNoItems ==
    /\ rean_pc = "done"
    /\ Reanalyzed
    /\ ReanalyzedItems = << >>
    /\ rean_result = existing_meal
    /\ rean_result # None

-----------------------------------------------------------------------------
(* Claims about batch_process_images *)

\* The batch of the call in flight.
ImageBatch == Get(batch_args).image_batch

\* The first n descriptors were processed one at a time, in input order:
\* call i was made with the arguments of descriptor i.
ProcessedInOrder(n) ==
    /\ Len(batch_calls) = n
    /\ \A i \in 1..n :
          batch_calls[i].args = MealImageArgs(Get(batch_args).user_id, ImageBatch[i])

\* The returned list is parallel to the input: entry i is what
\* process_meal_image returned for descriptor i (None for a failure).
ParallelResults ==
    /\ Len(Get(batch_reply)) = Len(ImageBatch)
    /\ ProcessedInOrder(Len(ImageBatch))
    /\ \A i \in 1..Len(ImageBatch) : Get(batch_reply)[i] = batch_calls[i].returned

\* The descriptors that lack a key the loop reads.
Malformed == {i \in 1..Len(ImageBatch) : ~(RequiredKeys \subseteq ImageBatch[i].keys)}

\* C17: batch_process_images processes the descriptors one at a time in input
\* order and returns a list parallel to the input, with None at the positions
\* of the failed descriptors; a failure does not stop the later descriptors.
C17_AsStated ==
    batch_pc = "done" => ParallelResults

\* C17 (amended): as C17 for a batch whose descriptors all carry image_data,
\* filename and meal_type; when one lacks such a key the descriptors before
\* the first of them are processed in order, none after it is, and the call
\* returns the empty list.
C17_ParallelWhenWellFormed ==
    /\ batch_pc = "done" =>
          IF Malformed = {}
            THEN ParallelResults
            ELSE /\ batch_reply = Some(<< >>)
                 /\ \E first \in Malformed :
                       /\ \A i \in Malformed : first <= i
                       /\ ProcessedInOrder(first - 1)
    /\ batch_pc = "loop" => (batch_reply = None /\ ProcessedInOrder(Len(results)))

\* A batch of three well-formed descriptors whose first failed and whose
\* later ones were processed and returned.
C17_Witness ==
    /\ batch_pc = "done"
    /\ Len(ImageBatch) = 3
    /\ Malformed = {}
    /\ Len(Get(batch_reply)) = 3
    /\ Get(batch_reply)[1] = None
    /\ Get(batch_reply)[2] # None
    /\ Get(batch_reply)[3] # None

-----------------------------------------------------------------------------
(* Claims about the user profile tools *)

\* new_goals names a health goal that is not a HealthGoal value, or a
\* preferred exercise that is not an ExerciseType value.
InvalidGoals(new_goals) ==
    \/ /\ new_goals.health_goal # None
       /\ Get(new_goals.health_goal) \notin HealthGoals
    \/ /\ new_goals.preferred_exercises # None
       /\ \E i \in 1..Len(Get(new_goals.preferred_exercises)) :
             Get(new_goals.preferred_exercises)[i] \notin ExerciseTypes

\* The step is an update_user_goals call whose new_goals is invalid.
InvalidGoalsCall ==
    /\ tool_reply' # tool_reply
    /\ Get(tool_reply').tool = "update_user_goals"
    /\ InvalidGoals(Get(Get(tool_reply').new_goals))

\* C18: an update_user_goals call whose new_goals holds an invalid health_goal
\* or an invalid preferred exercise returns an error dict without calling
\* save_user_profile, and the users table is after the call what it was
\* before it.
C18_InvalidGoalsNotSaved ==
    [][InvalidGoalsCall =>
          /\ Get(tool_reply').error # None
          /\ ~Get(tool_reply').save_called
          /\ profile_saves' = profile_saves
          /\ profiles' = profiles]_vars

\* A stored user asked for a valid new health goal together with an unknown
\* exercise: the call returned the exercise error, the only save so far is
\* the one that created the profile, and the stored goal is the old one.
C18_Witness ==
    /\ tool_reply # None
    /\ Get(tool_reply).tool = "update_user_goals"
    /\ Get(tool_reply).error = Some("invalid exercise type")
    /\ Get(Get(tool_reply).new_goals).health_goal = Some("muscle_gain")
    /\ Get(tool_reply).user_id \in DOMAIN profiles
    /\ profiles[Get(tool_reply).user_id].health_goal # "muscle_gain"
    /\ Len(profile_saves) = 1

\* The stored target is what one of the tools' own computations gives for
\* the stored weight, goal and activity level.
TargetCorresponds(p) ==
    \/ p.target_calories = Some(UserToolsTarget(p))
    \/ p.target_calories = Some(RagToolsTarget(p))

\* The last call was a successful weight update, or a successful goal update
\* that named health_goal, weight or activity_level.
UpdateSucceeded ==
    /\ tool_reply # None
    /\ Get(tool_reply).error = None
    /\ \/ Get(tool_reply).tool = "update_user_weight"
       \/ /\ Get(tool_reply).tool = "update_user_goals"
          /\ \/ Get(Get(tool_reply).new_goals).health_goal # None
             \/ Get(Get(tool_reply).new_goals).weight # None
             \/ Get(Get(tool_reply).new_goals).activity_level # None

\* C19: every successful goal update (of health_goal, weight or
\* activity_level) and every successful weight update persists a profile
\* whose target_calories is recomputed from the new values and whose
\* updated_at is the time of the call, so the stored target_calories always
\* corresponds to the stored weight.
C19_TargetFollowsWeight ==
    /\ UpdateSucceeded =>
          LET p == profiles[Get(tool_reply).user_id]
          IN  /\ p.updated_at = Get(tool_reply).seq
              /\ TargetCorresponds(p)
    /\ \A u \in DOMAIN profiles : TargetCorresponds(profiles[u])

-----------------------------------------------------------------------------
(* Claims about the target-calorie computations *)

\* C20: for the same weight, height, age, gender, activity level and health
\* goal the four call sites (user tools, coaching tools, coaching pipeline,
\* RAG tools) compute the identical target.
C20_SameNumberEverywhere ==
    cal_targets # None =>
        /\ Get(cal_targets).user_tools = Get(cal_targets).coaching_tools
        /\ Get(cal_targets).coaching_tools = Get(cal_targets).coaching_pipeline
        /\ Get(cal_targets).coaching_pipeline = Get(cal_targets).rag_tools

-----------------------------------------------------------------------------
(* Claims about the retry loop of _analyze_food_image *)

\* The call in flight took the image path: context holds image bytes.
OnImagePath ==
    /\ coach_pc # "idle"
    /\ HasImage(coach_args.context)
    /\ Get(coach_args.context).image_data = "bytes"

\* The attempts of the retry loop so far: the converse calls of the record.
Attempts == SelectSeq(coach_log, LAMBDA e : e.call = "bedrock-runtime.converse")

\* Whether every one of the first n attempts ended in a ThrottlingException.
Throttled(n) == \A i \in 1..n : Attempts[i].outcome = "throttled"

C21_LoopShape ==
    OnImagePath =>
       LET n == Len(Attempts)
           retries == IF coach_pc = "done" THEN n - 1 ELSE n
       IN  /\ n <= MaxRetries
           /\ coach_attempt = retries
           /\ Throttled(retries)
           /\ coach_sleeps = [k \in 1..retries |-> 3 * k]
           /\ \A k \in 1..Len(coach_sleeps) : coach_sleeps[k] \in {3, 6}
           /\ coach_pc \in {"image", "done"}
           /\ coach_pc = "image" => n < MaxRetries
           /\ coach_pc = "done" =>
                 /\ n >= 1
                 /\ Attempts[n].outcome # "throttled" \/ n = MaxRetries
                 /\ Attempts[n].outcome = "text" =>
                       coach_reply = Some(Returns(Some(ImageSuccess("llm_text"))))
                 /\ Attempts[n].outcome # "text" =>
                       /\ coach_reply = Some(Returns(Some(ImageFailure)))
                       /\ ~ImageFailure.success

-----------------------------------------------------------------------------
(* Claims about concurrent use of ConversationMemory *)

\* The history stored for a user; empty for a user never saved.
StoredHistory(u) == IF u \in DOMAIN conversations THEN conversations[u] ELSE << >>

\* This step appended an entry for user u.
Appended(u) == saved'[u] # saved[u]

\* C22 as stated: the append is a step of its own, after which the stored
\* history holds the new entry untruncated, so that a history that was full
\* (max_history >= 1 entries) holds max_history + 1 entries after the append
\* for anyone who runs next.
C22_AsStated ==
    [][\A u \in MemoryUsers :
          (Appended(u) /\ max_history >= 1 /\ Len(StoredHistory(u)) = max_history)
          => Len(conversations'[u]) = max_history + 1]_vars

\* Every step that appends for a user also truncates: the history it leaves
\* is the old one with the new entry, cut by the slice [-max_history:] when
\* longer than max_history.
C22_AppendTruncatesInOneStep ==
    \A u \in MemoryUsers :
       Appended(u) =>
          LET appended == Append(StoredHistory(u), saved'[u][Len(saved'[u])])
          IN  conversations'[u] =
                 IF Len(appended) > max_history
                   THEN SliceFromMinus(appended, max_history)
                   ELSE appended

\* No stored history, and no history a reader has seen, is longer than
\* max_history when max_history >= 1; with max_history = 0 the slice [-0:]
\* keeps the whole list, so that the history holds every entry ever saved.
C22_NoOverlongHistoryObserved ==
    /\ \A u \in DOMAIN conversations :
          IF max_history >= 1
            THEN Len(conversations[u]) <= max_history
            ELSE conversations[u] = saved[u]
    /\ (history_reply # None /\ max_history >= 1) =>
          Len(Get(history_reply).stored) <= max_history

\* C22, amended: save_conversation has no suspension point, so on the event
\* loop its append and truncation are one atomic step: with max_history >= 1,
\* interleaved get_conversation_history and save_conversation calls for the
\* same user never observe a stored history of more than max_history entries.
C22_SaveIsAtomic ==
    /\ [][C22_AppendTruncatesInOneStep]_vars
    /\ []C22_NoOverlongHistoryObserved

\* A reader ran after more saves for its user than max_history, at least one
\* of which truncated, and saw exactly max_history entries.
C22_Witness ==
    /\ max_history >= 1
    /\ history_reply # None
    /\ Len(saved[Get(history_reply).user_id]) > max_history
    /\ Len(Get(history_reply).stored) = max_history
    /\ Get(history_reply).stored = StoredHistory(Get(history_reply).user_id)

-----------------------------------------------------------------------------
(* Claims about the agent-provisioning scripts *)

\* The polls that fit in max_wait at one poll per PollInterval: 30.
MaxPolls == MaxWait \div PollInterval

\* The run created the alias or opened the config file for writing.
AliasOrConfigTouched ==
    \E i \in 1..Len(prov_calls) :
       prov_calls[i] \in {"create_agent_alias", "list_agent_aliases",
                          "open_config_for_writing"}

\* The wait of the run in progress is within the 5 minutes, and what follows
\* the wait follows an observed PREPARED.
WaitWithinBound ==
    /\ prov_polls <= MaxPolls
    /\ prov_wait_time <= MaxWait
    /\ prov_pc \in {"alias", "config"} => prov_status = Some("PREPARED")
    /\ AliasOrConfigTouched => prov_status = Some("PREPARED")
    /\ prov_result = Some("config") => prov_status = Some("PREPARED")

\* C23: in each of the three provisioning scripts the wait for PREPARED polls
\* at most 30 times, 10 s apart, so it ends within 5 minutes whatever
\* statuses the service returns, and the alias and the config file are
\* created only after PREPARED was observed.
C23_WaitEndsWithinFiveMinutes == WaitWithinBound

\* The same for the two scripts whose loop is `while wait_time < max_wait`.
BoundedScriptsWaitWithinBound ==
    (prov_script # None /\ Get(prov_script) \in BoundedScripts) => WaitWithinBound

\* In every script the alias and the config file follow an observed PREPARED.
AliasAndConfigOnlyAfterPrepared ==
    /\ prov_pc \in {"alias", "config"} => prov_status = Some("PREPARED")
    /\ AliasOrConfigTouched => prov_status = Some("PREPARED")
    /\ prov_result = Some("config") => prov_status = Some("PREPARED")

\* A bounded script timed out after its 30th poll.
BoundedScriptTimedOut ==
    /\ prov_pc = "done"
    /\ prov_script # None /\ Get(prov_script) \in BoundedScripts
    /\ prov_polls = MaxPolls
    /\ prov_wait_time = MaxWait
    /\ prov_status = Some("PREPARING")
    /\ prov_result = Some("None")

-----------------------------------------------------------------------------
(* Claims about the user profile's lists in the store *)

\* A list comes back as it was saved: an empty list is stored as the single
\* sentinel and comes back empty; a non-empty list comes back with the same
\* set of entries.
SameContents(saved_list, string_set, read_list) ==
    IF saved_list = << >>
      THEN string_set = {"none"} /\ read_list = << >>
      ELSE Elements(read_list) = Elements(saved_list)

\* C24: a saved profile is read back with the same contents of
\* preferred_exercises, disliked_exercises and dietary_restrictions: an empty
\* list is written as the sentinel ["none"] and read back empty, a non-empty
\* list is read back with the same set of elements.
C24_ListsRoundTrip ==
    ddb_pc = "read" =>
       /\ SameContents(ddb_profile.preferred_exercises,
                       Get(ddb_item).preferred_exercises,
                       Get(ddb_read).preferred_exercises)
       /\ SameContents(ddb_profile.disliked_exercises,
                       Get(ddb_item).disliked_exercises,
                       Get(ddb_read).disliked_exercises)
       /\ SameContents(ddb_profile.dietary_restrictions,
                       Get(ddb_item).dietary_restrictions,
                       Get(ddb_read).dietary_restrictions)

\* The two lists of ExerciseType, which has no member "none", do round-trip.
ExerciseListsRoundTrip ==
    ddb_pc = "read" =>
       /\ SameContents(ddb_profile.preferred_exercises,
                       Get(ddb_item).preferred_exercises,
                       Get(ddb_read).preferred_exercises)
       /\ SameContents(ddb_profile.disliked_exercises,
                       Get(ddb_item).disliked_exercises,
                       Get(ddb_read).disliked_exercises)

\* dietary_restrictions round-trips when no entry is the string "none".
RestrictionsRoundTripWithoutNone ==
    (ddb_pc = "read" /\ "none" \notin Elements(ddb_profile.dietary_restrictions)) =>
       SameContents(ddb_profile.dietary_restrictions,
                    Get(ddb_item).dietary_restrictions,
                    Get(ddb_read).dietary_restrictions)

-----------------------------------------------------------------------------
(* Claims about ConversationMemory._extract_topics *)

\* The reply text the LLM gave, empty when it gave none.
ReplyText ==
    IF top_llm = None \/ Get(top_llm).response = None
      THEN << >> ELSE Get(Get(top_llm).response)

\* The LLM path failed: the call raised, the reply holds no bracketed span, or
\* the span is not valid JSON.
LlmPathFailed ==
    \/ Get(top_llm).kind = "raise"
    \/ ArrayMatch(ReplyText) = None
    \/ JsonLoads(Get(ArrayMatch(ReplyText))) = None

\* The reply's first bracketed span is the empty array.
ReplyHasEmptyArray ==
    /\ Get(top_llm).kind = "dict"
    /\ ArrayMatch(ReplyText) = Some(<<"[", "]">>)

\* The result is one _extract_topics_fallback can give: at most 5 distinct
\* topics, each the topic of a keyword some message contains.
IsFallbackResult ==
    LET r == Get(top_result)
    IN  /\ r.source = "fallback"
        /\ Len(r.topics) <= MaxTopics
        /\ Elements(r.topics) \subseteq
              (KeywordTopics(top_conversations) \cap Elements(FallbackTopics))
        /\ Cardinality(Elements(r.topics)) = Len(r.topics)
        /\ Len(r.topics) < MaxTopics =>
              Elements(r.topics) = KeywordTopics(top_conversations)

TopicsCutToFive ==
    /\ top_pc = "done"
    /\ top_llm # None
    /\ Len(ReplyText) = 13
    /\ top_result = Some(TopicsReturn("llm", <<"diet", "exercise", "weight", "health", "sleep">>))

\* The fallback answered after a reply whose array spans several lines.
FallbackAfterMultilineArray ==
    /\ top_pc = "done"
    /\ top_llm # None
    /\ ReplyText = <<"[", "nl", "diet", "nl", "]">>
    /\ IsFallbackResult
    /\ Len(Get(top_result).topics) = MaxTopics

-----------------------------------------------------------------------------
(* Claims about BedrockService.process_natural_language *)

\* The LLM gave a text.
LlmGaveText == nlp_llm # None /\ Get(nlp_llm).kind = "text"

\* The text the LLM gave holds no JSON object: no "{" followed by a "}".
NoJsonObject == JsonMatch(Get(nlp_llm).text) = None

\* The text holds a brace-delimited span that is not valid JSON.
InvalidJsonSpan ==
    /\ JsonMatch(Get(nlp_llm).text) # None
    /\ JsonLoadsObject(Get(JsonMatch(Get(nlp_llm).text))) = None

\* The result is the raw reply as general_chat with confidence 0.5.
IsRawGeneralChat ==
    /\ Get(nlp_result).origin = "raw"
    /\ Get(nlp_result).intent = Some("general_chat")
    /\ Get(nlp_result).text = Strip(Get(nlp_llm).text)
    /\ Get(nlp_result).confidence = Some("0.5")

\* C26 as stated: a reply that cannot be parsed (no JSON object, or a
\* brace-delimited span that is not valid JSON) gives the raw reply text as
\* general_chat with confidence 0.5, and the fixed "please repeat" message
\* with confidence 0 is returned only when the LLM call itself fails.
C26_AsStated ==
    nlp_pc = "done" =>
       /\ (LlmGaveText /\ (NoJsonObject \/ InvalidJsonSpan)) => IsRawGeneralChat
       /\ Get(nlp_result) = PleaseRepeat => ~LlmGaveText

\* C26, amended: a reply without any JSON object gives the raw reply text,
\* stripped, as general_chat with confidence 0.5; a reply with a
\* brace-delimited span that is not valid JSON gives the fixed "please
\* repeat" message with intent unknown and confidence 0, as does a failure
\* before or in the LLM call; a valid object is returned as parsed.
C26_RawTextOnlyWithoutBraces ==
    nlp_pc = "done" =>
       /\ Get(nlp_result).origin \in {"raw", "fixed", "parsed"}
       /\ Get(nlp_result).origin = "raw" <=> (LlmGaveText /\ NoJsonObject)
       /\ Get(nlp_result).origin = "raw" => IsRawGeneralChat
       /\ Get(nlp_result).origin = "fixed" <=> (~LlmGaveText \/ InvalidJsonSpan)
       /\ Get(nlp_result).origin = "fixed" =>
             /\ Get(nlp_result) = PleaseRepeat
             /\ Get(nlp_result).confidence = Some("0.0")
       /\ Get(nlp_result).origin = "parsed" =>
             Get(nlp_result) =
                ParsedReply(Get(JsonLoadsObject(Get(JsonMatch(Get(nlp_llm).text)))))

\* The LLM answered with text around braces that hold no JSON, and the call
\* returned the fixed message.
C26_Witness ==
    /\ nlp_pc = "done"
    /\ LlmGaveText
    /\ Get(nlp_llm).text = <<"w", "{", "w", "}", "w">>
    /\ nlp_result = Some(PleaseRepeat)

\* The LLM answered with plain text between blanks, and the call returned it
\* stripped.
RawReplyReturned ==
    /\ nlp_pc = "done"
    /\ LlmGaveText
    /\ Get(nlp_llm).text = <<"sp", "w", "sp", "w", "nl">>
    /\ Get(nlp_result).text = <<"w", "sp", "w">>
    /\ IsRawGeneralChat

-----------------------------------------------------------------------------
(* Claims about the lifetime of /mcp/tools/call cache entries *)

\* The step is a /mcp/tools/call request answered from the cache.
HitStep ==
    /\ in_flight = << >> /\ in_flight' = << >>
    /\ lookup' # None /\ Get(lookup').cache = "response"
    /\ lookup' # lookup \/ mcp_reply' # mcp_reply

\* The step is a /mcp/tools/call request that missed the cache and started
\* its tool.
MissStep == Len(in_flight') > Len(in_flight)

\* The cache key of the request that has just missed.
MissedKey == in_flight'[Len(in_flight')].cache_key

\* The response cache holds an entry younger than the TTL under key k.
FreshEntry(k) ==
    k \in DOMAIN response_cache /\ now - response_cache[k].timestamp < ResponseTtl

\* An entry leaves the response cache only in the lookup of its own key that
\* finds it TTL or more seconds old, and an entry that stays is not changed.
RemovedOnlyByExpiry ==
    \A k \in DOMAIN response_cache :
       IF k \in DOMAIN response_cache'
         THEN response_cache'[k] = response_cache[k]
         ELSE /\ lookup' # None
              /\ Get(lookup').cache = "response"
              /\ Get(lookup').key = k
              /\ Get(lookup').age >= ResponseTtl
              /\ now - response_cache[k].timestamp >= ResponseTtl

\* A request answered from the cache gets the stored response of an entry
\* younger than the TTL, and nothing is executed or written for it.
HitServesStoredResponse ==
    HitStep =>
       LET l == Get(lookup')
       IN  /\ FreshEntry(l.key)
           /\ mcp_reply' = Some([endpoint |-> "call", cached |-> TRUE,
                                 response |-> Some(response_cache[l.key].data)])
           /\ tool_runs' = tool_runs
           /\ stored_weight' = stored_weight
           /\ response_cache' = response_cache

MutatingToolServedFromCache ==
    /\ mcp_reply # None
    /\ Get(mcp_reply).endpoint = "call"
    /\ Get(mcp_reply).cached
    /\ lookup # None /\ Get(lookup).cache = "response"
    /\ Get(lookup).key[1] = "update_user_weight"
    /\ Get(lookup).returned # None
    /\ tool_runs = <<"update_user_weight">>

-----------------------------------------------------------------------------
(* Claims about overlapping /mcp/tools/call requests *)

\* C28 as stated: the awaited tool execution separates the lookup from the
\* store, so that while one request awaits its tool the handler of another
\* request can run its lookup (and miss, and execute the tool as well).
C28_AsStated ==
    in_flight # << >> => ENABLED (\E r \in Requests : call_tool_enhanced(r))

\* While a request awaits its tool no other endpoint handler takes a step:
\* only the clock moves, or the tool ends.
NothingElseRunsMeanwhile ==
    in_flight # << >> =>
       /\ lookup' = lookup
       /\ tools_cache' = tools_cache
       /\ tool_runs' = tool_runs
       /\ in_flight' = in_flight \/ in_flight' = << >>

\* A response is stored only under a key the cache does not hold: no stored
\* response is ever overwritten by the response of another request.
StoresNeverOverwrite ==
    \A k \in DOMAIN response_cache' :
       k \in DOMAIN response_cache => response_cache'[k] = response_cache[k]

\* C28, amended: the lookup and the store of /mcp/tools/call are separated
\* by an await and guarded by no lock or in-flight marker, but the awaited
\* tool execution never suspends, so requests are handled one at a time: at
\* most one tool execution is under way, no other lookup runs before its
\* response is stored, a request is executed only when the cache holds no
\* live entry under its key, and a stored response is never overwritten.
C28_HandlersRunOneAtATime ==
    /\ [](Len(in_flight) <= 1)
    /\ [][NothingElseRunsMeanwhile /\ StoresNeverOverwrite]_vars
    /\ [][MissStep => MissedKey \notin DOMAIN response_cache']_vars

\* The same request was executed twice, one execution after the other ended
\* with an error, and the response of the second is the one in the cache.
C28_Witness ==
    /\ tool_runs = <<"get_user_context", "get_user_context">>
    /\ in_flight = << >>
    /\ mcp_reply # None
    /\ ~Get(mcp_reply).cached
    /\ DOMAIN response_cache = {generate_key("get_user_context", << <<"user_id", "u1">> >>)}
    /\ \A k \in DOMAIN response_cache :
          response_cache[k].data = Get(Get(mcp_reply).response)

-----------------------------------------------------------------------------
(* Claims about the missing compensation of process_meal_image *)

\* The call to fn of the call in flight raised an exception.
Raised(fn) == Made(fn) /\ OutcomeOf(fn).kind = "raise"

\* MealRecord(...) raised: the analysis returned and people_count is below 1.
RecordConstructionRaised ==
    /\ Made("analyze_food_image")
    /\ OutcomeOf("analyze_food_image").kind = "return"
    /\ ~MealRecordValid(call_args.people_count)

\* A step after the successful upload raised an exception.
RaisedAfterUpload ==
    /\ UploadSucceeded
    /\ \/ Raised("analyze_food_image")
       \/ RecordConstructionRaised
       \/ Raised("save_meal_record")

\* The uploaded image is in storage and no save reported a stored record.
ImageLeftWithoutRecord ==
    /\ UploadSucceeded
    /\ CallsTo("delete_image") = << >>
    /\ ~(Made("save_meal_record") /\ OutcomeOf("save_meal_record").kind = "return"
           /\ OutcomeOf("save_meal_record").value)

\* C30: delete_image is called only right after a save_meal_record that
\* returned a failure value; when a step after the successful upload raises
\* instead (the analysis, the MealRecord construction with people_count < 1,
\* or the save), the call returns None without deleting the image, which
\* stays in storage with no record.
C30_NoRollbackOnException ==
    /\ \A i \in 1..Len(calls) :
          calls[i].fn = "delete_image" =>
             /\ i > 1
             /\ calls[i - 1].fn = "save_meal_record"
             /\ calls[i - 1].outcome.kind = "return"
             /\ ~calls[i - 1].outcome.value
    /\ RaisedAfterUpload =>
          /\ pc = "done"
          /\ result = None
          /\ calls[Len(calls)].fn # "delete_image"
          /\ ImageLeftWithoutRecord

\* The save raised after a successful upload and analysis; the call is over.
C30_Witness ==
    /\ pc = "done"
    /\ UploadSucceeded
    /\ Raised("save_meal_record")
    /\ result = None
    /\ ImageLeftWithoutRecord

\* The MealRecord construction raised for people_count = 0 after the upload.
RecordConstructionLeftImage ==
    /\ pc = "done"
    /\ RecordConstructionRaised
    /\ call_args.people_count = 0
    /\ ImageLeftWithoutRecord

\* The analysis raised after the upload.
AnalysisRaiseLeftImage ==
    /\ pc = "done"
    /\ Raised("analyze_food_image")
    /\ ImageLeftWithoutRecord

-----------------------------------------------------------------------------
(* Claims about the analyze_food_image tool *)

DietCallsTo(fn) == SelectSeq(dt_calls, LAMBDA c : c.fn = fn)

\* The upload of the call in flight returned a URL.
DietUploaded ==
    /\ DietCallsTo("upload_image") # << >>
    /\ dt_calls[1].outcome.kind = "return"
    /\ Truthy(dt_calls[1].outcome.value)

\* The analysis of the call in flight returned no food item.
NoFoodRecognised ==
    /\ DietCallsTo("analyze_food_image") # << >>
    /\ dt_calls[2].outcome.kind = "return"
    /\ dt_calls[2].outcome.value = << >>

\* save_meal_record of the call in flight returned (True or False).
SaveReturned ==
    /\ DietCallsTo("save_meal_record") # << >>
    /\ dt_calls[3].outcome.kind = "return"

\* C29: the analyze_food_image tool never calls delete_image and an image it
\* has uploaded stays in storage whatever happens next; when no food is
\* recognised it returns the no-food error dict with the image left in
\* storage; when save_meal_record returns, True or False, it returns the
\* success summary with the meal_id.
C29_NoCompensation ==
    /\ DietCallsTo("delete_image") = << >>
    /\ DietUploaded => Get(dt_image_url) \in dt_bucket
    /\ NoFoodRecognised =>
          /\ dt_pc = "done"
          /\ dt_result = Some(ErrorDict("no_food"))
          /\ Get(dt_image_url) \in dt_bucket
    /\ SaveReturned =>
          /\ dt_pc = "done"
          /\ dt_result = Some(SuccessSummary(dt_meal_id, Get(dt_meal_record).foods,
                                             dt_image_url))
          /\ Get(dt_result).meal_id = Some(dt_meal_id)
          /\ Get(dt_result).error = None

\* The save reported failure and the tool returned the success summary for a
\* meal that is not in the table, its image being in storage.
C29_Witness ==
    /\ dt_pc = "done"
    /\ SaveReturned
    /\ ~dt_calls[3].outcome.value
    /\ Get(dt_result).meal_id = Some(dt_meal_id)
    /\ dt_meal_id \notin dt_table
    /\ Get(dt_image_url) \in dt_bucket

\* No food was recognised and the image stayed in storage.
NoFoodLeftImage ==
    /\ dt_pc = "done"
    /\ NoFoodRecognised
    /\ dt_result = Some(ErrorDict("no_food"))
    /\ dt_bucket # {}
    /\ dt_table = {}

=============================================================================
